---- MODULE Spec2Model ----
(***************************************************************************)
(* Model of the crash manager of obs-studio-server                         *)
(* (source/util-crashmanager.cpp, release build on Windows).               *)
(*                                                                         *)
(* The process is a state machine.  The crash manager's globals are the    *)
(* variables; the faulting thread's nest of synchronous handler calls is   *)
(* the sequence `stack`: a hook that fires while a handler is running      *)
(* pushes a new frame on top of the interrupted one.  Text is a sequence   *)
(* of one-character strings, so that substring search and formatting are   *)
(* computed and not assumed.                                               *)
(*                                                                         *)
(* Spec is the process with one faulting thread; SpecHooks is the same     *)
(* after set-up, with the handlers' thread kept running; SpecFilter is the *)
(* known-crash test on its own; SpecLog and SpecLogFair are the threads of *)
(* the host on the diagnostic log, the lock and the latch; SpecWalk is the *)
(* stack walk on its own; SpecReport is one invocation of HandleCrash with *)
(* any of its queries failing; SpecOBSLog is RequestOBSLog on the engine's *)
(* logs; SpecBytes is PrettyBytes on its own.                              *)
(*                                                                         *)
(* The display registry and the source selection of                        *)
(* source/nodeobs_common.cpp are modelled beside it: SpecRegistry is the   *)
(* creation and destruction of displays, SpecDisplay the setters and       *)
(* getters on a registry, SpecScene the selection and dragging of a scene  *)
(* item.  A display and a scene item are objects of the rendering engine:  *)
(* the model keeps of them what the calls made on them say.                *)
(***************************************************************************)
EXTENDS Integers, Sequences, FiniteSets, TLC

(***************************************************************************)
(* Bounds of the model.                                                    *)
(***************************************************************************)
MaxSigs == 1        \* signatures Configure registers in one process
MaxNested == 1      \* faults raised inside running handlers, one in another
MaxSetups == 1      \* calls of Initialize
MaxLog == 2         \* appends of one thread to the diagnostic log
MaxFilterSigs == 2  \* signatures in a list given to the known-crash test
MaxSigLen == 2      \* characters in a signature given to the known-crash test
MaxFmtLen == 3      \* characters in a format given to the known-crash test
MaxDepth == 64      \* frames on the stack of the thread whose stack is walked
MaxSkip == 2        \* frames a caller of RewindCallStack asks to skip
MaxFailAt == 4      \* where the run of frames without symbols can start
MaxRun == 3         \* frames without symbols in a row
MaxOBSLog == 2      \* messages in one log of the engine
MaxRequests == 2    \* calls of RequestOBSLog
MaxMantissa == 2    \* whole units in a byte count given to PrettyBytes
MaxDisplays == 3    \* displays constructed in one process
MaxItems == 2       \* items in the scene

Letters == {"d", "D"}
FormatChars == Letters \cup {"%"}

RECURSIVE SeqsUpTo(_, _)
SeqsUpTo(S, n) ==
    IF n = 0 THEN {<<>>}
    ELSE LET shorter == SeqsUpTo(S, n - 1)
         IN  shorter \cup {Append(s, c) : s \in shorter, c \in S}

\* What the process is run with: the signatures Configure may register, the
\* formats and the argument of the fatal errors the engine raises.
Signatures == {<<"d">>, <<"D">>}
Formats == {<<"d">>, <<"D">>, <<"%">>}
Arguments == {<<c>> : c \in Letters}

\* What the known-crash test is tried on.
FilterSignatures == SeqsUpTo(Letters, MaxSigLen) \ {<<>>}
FilterFormats == SeqsUpTo(FormatChars, MaxFmtLen) \ {<<>>}

(***************************************************************************)
(* Pure functions.                                                         *)
(***************************************************************************)
npos == -1

\* A search that accepts only the whole string (equality instead of containment).
FindEqualOnly(s, t, pos) == IF s = t THEN 0 ELSE npos

\* std::string::find(t), scanning from offset pos: the first offset at which
\* t occurs in s, character for character, or npos.
RECURSIVE find(_, _, _)
find(s, t, pos) ==
    IF pos + Len(t) > Len(s) THEN npos
    ELSE IF SubSeq(s, pos + 1, pos + Len(t)) = t THEN pos
    ELSE find(s, t, pos + 1)

\* The loop of TryHandleCrash over handledOBSCrashes, from entry k on.
RECURSIVE crashIsHandled(_, _, _)
crashIsHandled(format, handled, k) ==
    IF k > Len(handled) THEN FALSE
    ELSE IF find(format, handled[k], 0) # npos THEN TRUE
    ELSE crashIsHandled(format, handled, k + 1)

\* vsnprintf with one string argument: every conversion "%" of the format is
\* replaced by the argument, every other character is copied.
RECURSIVE FormatVAString(_, _)
FormatVAString(format, arg) ==
    IF format = <<>> THEN <<>>
    ELSE (IF Head(format) = "%" THEN arg ELSE <<Head(format)>>)
             \o FormatVAString(Tail(format), arg)

\* HandleCrash returns to a caller that passed no second argument.
DefaultNoAbort == FALSE

\* HandleCrash's callAbort when the caller passes no second argument: the
\* one-argument calls are followed by "Unreachable statement".
DefaultCallAbort == TRUE

\* The sixteen annotations.insert statements of HandleCrash, in order.
InsertKeys ==
    << "Time elapsed: ", "Status", "Leaks", "Total memory", "Total used memory",
       "Total SLOBS memory", "CPU usage", "OBS errors", "OBS warnings",
       "OBS log general", "Process List", "Manual callstack", "Crash reason",
       "Computer name", "Breadcrumbs", "Warnings" >>

NumInserts == Len(InsertKeys)

\* std::map::insert: an existing key keeps its value.
MapInsert(map, key, value) ==
    IF key \in DOMAIN map THEN map ELSE map @@ (key :> value)

EmptyMap == [k \in {} |-> <<>>]

\* The threads of the host that use the diagnostic log and can fault.
Threads == {1, 2}

\* A thread outside the crash manager.  op and pc say where the thread is, arg
\* and end are the locals of a running log operation; crumbs and warns count
\* the thread's completed appends, passed says that the thread got past the
\* guard of HandleCrash, readB and readW are what its report read of the logs.
IdleThread ==
    [op |-> "none", pc |-> "idle", arg |-> <<>>, end |-> 0,
     crumbs |-> 0, warns |-> 0, passed |-> FALSE, readB |-> <<>>, readW |-> <<>>]

\* A stack walk before it runs.  depth is the number of frames on the stack
\* of the calling thread and skip the argument; symbol and line lookup fails
\* for the frames failFrom..failTo and frame own lies in util-crashmanager.cpp
\* (-1: no such frame).  frames, result, crashedMethod and visited are filled
\* in by RewindCallStack: the addresses captured, the entries emitted, the
\* frame whose function name was stored last, the indices the loop visited.
NewWalk(depth, skip, failFrom, failTo, own) ==
    [depth |-> depth, skip |-> skip, failFrom |-> failFrom, failTo |-> failTo,
     own |-> own, done |-> FALSE, frames |-> 0, result |-> <<>>,
     crashedMethod |-> -1, visited |-> <<>>]

\* No stack walk has run.
NoWalk == NewWalk(0, 0, 0, -1, -1)

\* The logs the engine keeps (OBS_API::getOBSLogErrors, getOBSLogWarnings,
\* getOBSLogGeneral), empty.
NoOBSLog == [errors |-> <<>>, warnings |-> <<>>, general |-> <<>>]

\* PrettyBytes before it is called on bytes, a number given by its digits to
\* the base 1024, most significant first.
NewBytes(bytes) == [bytes |-> bytes, done |-> FALSE, text |-> <<>>]
NoBytes == NewBytes(<<>>)

\* std::map<std::string, OBS::Display *> displays; as it is constructed.
NoDisplays == [key \in {} |-> 0]

\* No content operation has been called.
NoCall == [op |-> "none", key |-> "", point |-> <<>>, found |-> FALSE, rval0 |-> <<>>]

VARIABLES
    status,              \* "running", "exiting", "exited", "aborted", "debugger"
    exitCode,            \* argument of the last exit call, -1 before any
    initialized,         \* Initialize returned true: hooks and exit handlers set
    handledOBSCrashes,   \* the configured signatures
    insideCrashMethod,   \* HandleCrash's static latch
    annotations,         \* the global annotation map
    obsActive,           \* obs_initialized()
    breadcrumbs,
    warnings,
    arguments,           \* crashpad handler arguments (one string per entry)
    handed,              \* annotation maps given to StartHandler, oldest first
    stack,               \* handler frames of the faulting thread, innermost last
    calls,               \* history: one record per invocation of HandleCrash
    faults,              \* history: faults raised by the environment so far
    messageMutex,        \* the thread that holds the log lock, 0 when it is free
    threads,             \* per thread: where it is in a log operation or in HandleCrash
    cleared,             \* history: ClearBreadcrumbs has emptied the breadcrumb log
    walk,                \* RewindCallStack: what was captured and what was emitted
    obsLog,              \* the engine's logs: errors, warnings, general
    requests,            \* history: what each RequestOBSLog call returned
    pretty,              \* PrettyBytes: the argument and the string returned
    displays,            \* the display registry: key -> display
    objects,             \* the displays constructed so far, in order
    rval,                \* the return values of the call made last
    sourceSelected,      \* the name of the selected source, "" for none
    scene,               \* the items of the active scene, in enumeration order
    lastCall             \* history: the content operation called last

vars == << status, exitCode, initialized, handledOBSCrashes, insideCrashMethod,
           annotations, obsActive, breadcrumbs, warnings, arguments, handed,
           stack, calls, faults, messageMutex, threads, cleared, walk,
           obsLog, requests, pretty, displays, objects, rval, sourceSelected,
           scene, lastCall >>

crashState == << insideCrashMethod, annotations, arguments, handed, calls >>
logState == << breadcrumbs, warnings >>
threadState == << messageMutex, threads, cleared >>
contentState == << displays, objects, rval, sourceSelected, scene, lastCall >>
helperState == << obsLog, requests, pretty, contentState >>

\* RequestOBSLog and PrettyBytes have not been called and the engine has
\* logged nothing.
ContentUnused ==
    /\ displays = NoDisplays
    /\ objects = <<>>
    /\ rval = <<>>
    /\ sourceSelected = ""
    /\ scene = <<>>
    /\ lastCall = NoCall

HelpersUnused ==
    /\ obsLog = NoOBSLog
    /\ requests = <<>>
    /\ pretty = NoBytes
    /\ ContentUnused

Init ==
    /\ status = "running"
    /\ exitCode = -1
    /\ initialized = FALSE
    /\ handledOBSCrashes = <<>>
    /\ insideCrashMethod = FALSE
    /\ annotations = EmptyMap
    /\ obsActive = FALSE
    /\ breadcrumbs = <<>>
    /\ warnings = <<>>
    /\ arguments = <<>>
    /\ handed = <<>>
    /\ stack = <<>>
    /\ calls = <<>>
    /\ faults = 0
    /\ messageMutex = 0
    /\ threads = [t \in Threads |-> IdleThread]
    /\ cleared = FALSE
    /\ walk = NoWalk
    /\ HelpersUnused

(***************************************************************************)
(* Frames and the invocation history.                                      *)
(***************************************************************************)
Top == stack[Len(stack)]
Pop(s) == SubSeq(s, 1, Len(s) - 1)
SetTop(s, f) == [s EXCEPT ![Len(s)] = f]

\* A frame of handler fn at position pc.  format and message are the
\* arguments of the crash callback and of TryHandleCrash; idx counts the
\* insert statements HandleCrash has executed; inv is the invocation of
\* HandleCrash the frame belongs to; fault is the number of the fault that
\* was being handled when the frame was entered.
Frame(fn, pc, format, message, inv, fault) ==
    [fn |-> fn, pc |-> pc, format |-> format, message |-> message,
     idx |-> 0, inv |-> inv, fault |-> fault, failed |-> {}, garbage |-> <<>>,
     released |-> FALSE, setups0 |-> Len(arguments)]

\* The record kept for one invocation of HandleCrash(reason, callAbort).
Call(reason, callAbort, via, fault) ==
    [reason |-> reason, callAbort |-> callAbort, via |-> via, fault |-> fault,
     latched |-> insideCrashMethod, collected |-> FALSE, inserted |-> 0,
     setup |-> "none", outcome |-> "active"]

\* Calling HandleCrash(reason, callAbort) from the frames in base.
InvokeHandleCrash(base, reason, callAbort, via, fault) ==
    /\ stack' = Append(base, Frame("HandleCrash", "guard", <<>>, <<>>, Len(calls) + 1, fault))
    /\ calls' = Append(calls, Call(reason, callAbort, via, fault))

AtExitReason == <<"AtExit">>
TerminateReason == <<"Direct call to std::terminate">>
FilterReason == <<"UnhandledExceptionFilter">>

(***************************************************************************)
(* The host: set-up, the diagnostic log, the engine, process exit.         *)
(***************************************************************************)
Idle == status = "running" /\ stack = <<>>

\* What the backend answers: the database cannot be opened, StartHandler
\* fails, WaitForHandlerStart fails, or all three succeed.
SetupOutcomes == {"ok", "dbfail", "startfail", "waitfail"}

\* SetupCrashpad reports success whatever the backend answers.
SetupCrashpadReturnsTrue(outcome) == TRUE

\* The value SetupCrashpad returns.
SetupCrashpadReturns(outcome) == outcome = "ok"

\* SetupCrashpad: the argument is pushed and the paths are set before the
\* database is opened; StartHandler receives a copy of the annotation map.
SetupCrashpad(outcome) ==
    /\ arguments' = Append(arguments, "--no-rate-limit")
    /\ handed' = IF outcome = "dbfail" THEN handed ELSE Append(handed, annotations)

\* Initialize: nothing is installed when SetupCrashpad fails.
Initialize(outcome) ==
    /\ Idle
    /\ ~initialized
    /\ Len(arguments) < MaxSetups
    /\ SetupCrashpad(outcome)
    /\ initialized' = SetupCrashpadReturns(outcome)
    /\ UNCHANGED << status, exitCode, handledOBSCrashes, insideCrashMethod,
                    annotations, obsActive, breadcrumbs, warnings, stack, calls,
                    faults >>
    /\ UNCHANGED << threadState, walk, helperState >>

\* Configure: a signature is appended to handledOBSCrashes.
Configure(signature) ==
    /\ Idle
    /\ Len(handledOBSCrashes) < MaxSigs
    /\ handledOBSCrashes' = Append(handledOBSCrashes, signature)
    /\ UNCHANGED << status, exitCode, initialized, insideCrashMethod, annotations,
                    obsActive, breadcrumbs, warnings, arguments, handed, stack,
                    calls, faults >>
    /\ UNCHANGED << threadState, walk, helperState >>

\* The host starts the engine or shuts it down in normal operation.
SetEngine(active) ==
    /\ Idle
    /\ obsActive # active
    /\ obsActive' = active
    /\ UNCHANGED << status, exitCode, initialized, handledOBSCrashes,
                    insideCrashMethod, annotations, breadcrumbs, warnings,
                    arguments, handed, stack, calls, faults >>
    /\ UNCHANGED << threadState, walk, helperState >>

\* The host calls exit(code) or quick_exit(code): both run HandleExit when
\* Initialize has registered it.
Exit(code) ==
    /\ Idle
    /\ status' = "exiting"
    /\ exitCode' = code
    /\ stack' = IF initialized
                THEN << Frame("HandleExit", "check", <<>>, <<>>, 0, faults) >>
                ELSE <<>>
    /\ UNCHANGED << initialized, handledOBSCrashes, insideCrashMethod, annotations,
                    obsActive, breadcrumbs, warnings, arguments, handed, calls,
                    faults >>
    /\ UNCHANGED << threadState, walk, helperState >>

\* Exit processing ends: no handler is running any more.
FinishExit ==
    /\ status = "exiting"
    /\ IF stack = <<>> THEN TRUE ELSE Top.pc = "inexit"
    /\ status' = "exited"
    /\ UNCHANGED << exitCode, initialized, handledOBSCrashes, insideCrashMethod,
                    annotations, obsActive, breadcrumbs, warnings, arguments,
                    handed, stack, calls, faults >>
    /\ UNCHANGED << threadState, walk, helperState >>

(***************************************************************************)
(* The hooks Initialize installs.  A fault is raised by the environment    *)
(* either in the host's own code or synchronously inside a running         *)
(* handler, at a place where that handler is executing code that can       *)
(* fault: report assembly, the release of the engine, the rest of exit     *)
(* processing.                                                             *)
(***************************************************************************)
FaultPcs == {"collect", "setup", "destroy", "inexit"}

\* The insert statements of HandleCrash that call into the engine or the
\* operating system: obs_initialized, bnum_allocs, RequestOBSLog (three times)
\* and RequestProcessList.
OutsideCalls == {2, 3, 8, 9, 10, 11}

\* The faults on the stack that were raised inside a running handler: the
\* frames entered for another fault than the frame below them.
NestedFaults ==
    Cardinality({k \in 2..Len(stack) : stack[k].fault # stack[k - 1].fault})

CanFault ==
    /\ initialized
    /\ status \in {"running", "exiting"}
    /\ IF stack = <<>> THEN TRUE
       ELSE /\ NestedFaults < MaxNested
            /\ \/ Top.pc \in FaultPcs
               \/ Top.pc = "insert" /\ Top.idx + 1 \in OutsideCalls

\* The crash callback on entry: the message is formatted and TryHandleCrash
\* is called with the raw format and the message.
CrashCallback(format, arg, fault) ==
    LET errorMessage == FormatVAString(format, arg)
    IN  << Frame("callback", "try", format, errorMessage, 0, fault),
           Frame("TryHandleCrash", "match", format, errorMessage, 0, fault) >>

\* bcrash: libobs calls the handler set by base_set_crash_handler.
RaiseOBSCrash(format, arg) ==
    /\ CanFault
    /\ faults' = faults + 1
    /\ stack' = stack \o CrashCallback(format, arg, faults + 1)
    /\ UNCHANGED << status, exitCode, initialized, handledOBSCrashes,
                    insideCrashMethod, annotations, obsActive, breadcrumbs,
                    warnings, arguments, handed, calls >>
    /\ UNCHANGED << threadState, walk, helperState >>

\* std::terminate: the handler set by std::set_terminate.
RaiseTerminate ==
    /\ CanFault
    /\ faults' = faults + 1
    /\ InvokeHandleCrash(stack, TerminateReason, DefaultCallAbort, "terminate", faults + 1)
    /\ UNCHANGED << status, exitCode, initialized, handledOBSCrashes,
                    insideCrashMethod, annotations, obsActive, breadcrumbs,
                    warnings, arguments, handed >>
    /\ UNCHANGED << threadState, walk, helperState >>

\* An unhandled structured exception: the filter set by
\* SetUnhandledExceptionFilter.  With a debugger attached the filter returns
\* EXCEPTION_CONTINUE_SEARCH at once and the debugger takes the process.
RaiseUnhandledException(debuggerPresent) ==
    /\ CanFault
    /\ faults' = faults + 1
    /\ IF debuggerPresent
       THEN /\ status' = "debugger"
            /\ UNCHANGED << stack, calls >>
       ELSE /\ InvokeHandleCrash(stack, FilterReason, DefaultCallAbort, "filter", faults + 1)
            /\ UNCHANGED status
    /\ UNCHANGED << exitCode, initialized, handledOBSCrashes, insideCrashMethod,
                    annotations, obsActive, breadcrumbs, warnings, arguments,
                    handed >>
    /\ UNCHANGED << threadState, walk, helperState >>

Running(fn, pc) ==
    /\ status \in {"running", "exiting"}
    /\ IF stack = <<>> THEN FALSE ELSE Top.fn = fn /\ Top.pc = pc

\* The crash callback after TryHandleCrash returned false.
CrashCallbackUnknown ==
    /\ Running("callback", "crash")
    /\ InvokeHandleCrash(SetTop(stack, [Top EXCEPT !.pc = "unreach"]), Top.message,
                         DefaultCallAbort, "callback", Top.fault)
    /\ UNCHANGED << status, exitCode, initialized, handledOBSCrashes,
                    insideCrashMethod, annotations, obsActive, breadcrumbs,
                    warnings, arguments, handed, faults >>
    /\ UNCHANGED << threadState, walk, helperState >>

(***************************************************************************)
(* TryHandleCrash.                                                         *)
(***************************************************************************)
\* The signatures are searched for in the formatted message.
SearchedMessage(format, crashMessage) == crashMessage

\* The string TryHandleCrash(_format, _crashMessage) searches the signatures
\* in: std::string(_format).
Searched(format, crashMessage) == format

\* A known crash goes to exit(0) without the release of the engine.
TryHandleCrashExitsFirst ==
    /\ Running("TryHandleCrash", "match")
    /\ IF crashIsHandled(Top.format, handledOBSCrashes, 1)
       THEN stack' = SetTop(stack, [Top EXCEPT !.pc = "exit"])
       ELSE stack' = SetTop(Pop(stack), [stack[Len(stack) - 1] EXCEPT !.pc = "crash"])
    /\ UNCHANGED << status, exitCode, initialized, handledOBSCrashes,
                    insideCrashMethod, annotations, obsActive, breadcrumbs,
                    warnings, arguments, handed, calls, faults >>
    /\ UNCHANGED << threadState, walk, helperState >>

\* The known-crash test sets the reentrancy latch on entry.
TryHandleCrashLatches ==
    /\ Running("TryHandleCrash", "match")
    /\ IF crashIsHandled(Searched(Top.format, Top.message), handledOBSCrashes, 1)
       THEN stack' = SetTop(stack, [Top EXCEPT !.pc = "destroy"])
       ELSE stack' = SetTop(Pop(stack), [stack[Len(stack) - 1] EXCEPT !.pc = "crash"])
    /\ insideCrashMethod' = TRUE
    /\ UNCHANGED << status, exitCode, initialized, handledOBSCrashes,
                    annotations, obsActive, breadcrumbs,
                    warnings, arguments, handed, calls, faults >>
    /\ UNCHANGED << threadState, walk, helperState >>

\* The known-crash test.  An unknown crash returns false to the callback.
TryHandleCrash ==
    /\ Running("TryHandleCrash", "match")
    /\ IF crashIsHandled(Searched(Top.format, Top.message), handledOBSCrashes, 1)
       THEN stack' = SetTop(stack, [Top EXCEPT !.pc = "destroy"])
       ELSE stack' = SetTop(Pop(stack), [stack[Len(stack) - 1] EXCEPT !.pc = "crash"])
    /\ UNCHANGED << status, exitCode, initialized, handledOBSCrashes,
                    insideCrashMethod, annotations, obsActive, breadcrumbs,
                    warnings, arguments, handed, calls, faults >>
    /\ UNCHANGED << threadState, walk, helperState >>

\* OBS_API::destroyOBS_API when it completes: the engine is shut down.
destroyOBS_API(active) == FALSE

\* destroyOBS_API returns; exit(0) is the next statement.
ReleaseCompletes ==
    /\ Running("TryHandleCrash", "destroy")
    /\ obsActive' = destroyOBS_API(obsActive)
    /\ stack' = SetTop(stack, [Top EXCEPT !.pc = "exit", !.released = TRUE])
    /\ UNCHANGED << status, exitCode, initialized, handledOBSCrashes,
                    insideCrashMethod, annotations, breadcrumbs, warnings,
                    arguments, handed, calls, faults >>
    /\ UNCHANGED << threadState, walk, helperState >>

\* destroyOBS_API throws: control goes to the catch block, with the engine
\* shut down or not.
ReleaseThrows ==
    /\ Running("TryHandleCrash", "destroy")
    /\ obsActive' \in {obsActive, destroyOBS_API(obsActive)}
    /\ stack' = SetTop(stack, [Top EXCEPT !.pc = "catch"])
    /\ UNCHANGED << status, exitCode, initialized, handledOBSCrashes,
                    insideCrashMethod, annotations, breadcrumbs, warnings,
                    arguments, handed, calls, faults >>
    /\ UNCHANGED << threadState, walk, helperState >>

\* exit(0): exit processing starts and runs HandleExit.
QuietExit ==
    /\ Running("TryHandleCrash", "exit")
    /\ status' = "exiting"
    /\ exitCode' = 0
    /\ stack' = Append(SetTop(stack, [Top EXCEPT !.pc = "inexit"]),
                       Frame("HandleExit", "check", <<>>, <<>>, 0, Top.fault))
    /\ UNCHANGED << initialized, handledOBSCrashes, insideCrashMethod, annotations,
                    obsActive, breadcrumbs, warnings, arguments, handed, calls,
                    faults >>
    /\ UNCHANGED << threadState, walk, helperState >>

\* The catch block reports the raw format and does not ask for abort.
ReleaseFallbackNoAbort ==
    /\ Running("TryHandleCrash", "catch")
    /\ InvokeHandleCrash(SetTop(stack, [Top EXCEPT !.pc = "unreach"]), Top.format,
                         FALSE, "fallback", Top.fault)
    /\ UNCHANGED << status, exitCode, initialized, handledOBSCrashes,
                    insideCrashMethod, annotations, obsActive, breadcrumbs,
                    warnings, arguments, handed, faults >>
    /\ UNCHANGED << threadState, walk, helperState >>

\* catch (...): HandleCrash(_crashMessage).
ReleaseFallback ==
    /\ Running("TryHandleCrash", "catch")
    /\ InvokeHandleCrash(SetTop(stack, [Top EXCEPT !.pc = "unreach"]), Top.message,
                         DefaultCallAbort, "fallback", Top.fault)
    /\ UNCHANGED << status, exitCode, initialized, handledOBSCrashes,
                    insideCrashMethod, annotations, obsActive, breadcrumbs,
                    warnings, arguments, handed, faults >>
    /\ UNCHANGED << threadState, walk, helperState >>

(***************************************************************************)
(* HandleExit.                                                             *)
(***************************************************************************)
\* A report is made at exit without the test of the engine.
ExitReportsAlways(active) == TRUE

\* if (obs_initialized())
ExitReports(active) == active

HandleExit ==
    /\ Running("HandleExit", "check")
    /\ IF ExitReports(obsActive)
       THEN InvokeHandleCrash(SetTop(stack, [Top EXCEPT !.pc = "return"]),
                              AtExitReason, FALSE, "exit", Top.fault)
       ELSE stack' = Pop(stack) /\ UNCHANGED calls
    /\ UNCHANGED << status, exitCode, initialized, handledOBSCrashes,
                    insideCrashMethod, annotations, obsActive, breadcrumbs,
                    warnings, arguments, handed, faults >>
    /\ UNCHANGED << threadState, walk, helperState >>

\* HandleCrash("AtExit", false) has returned.
HandleExitReturns ==
    /\ Running("HandleExit", "return")
    /\ stack' = Pop(stack)
    /\ UNCHANGED << status, exitCode, initialized, handledOBSCrashes,
                    insideCrashMethod, annotations, obsActive, breadcrumbs,
                    warnings, arguments, handed, calls, faults >>
    /\ UNCHANGED << threadState, walk, helperState >>

(***************************************************************************)
(* HandleCrash.                                                            *)
(***************************************************************************)
\* The insert statements whose value is a nlohmann::json (the result of
\* ComputeBreadcrumbs and of ComputeWarnings) put into a map of std::string
\* without dump(): the json library converts, and it refuses a value that is
\* not a JSON string by throwing.
JsonValued == {15, 16}

\* The queries HandleCrash makes of the system: the stack walk, the usage
\* metrics, the computer name and the process list.
Queries == {"walk", "usage", "name", "processes"}

\* The queries that fail in one invocation where handlers nest: none, or
\* all those that leave a defined value.
QueryFailures == {{}, Queries \ {"usage"}}

\* What a local variable that no call has written can hold when it is read.
Indeterminate == {<<"-1">>, <<"0">>}

\* The out-parameters of RequestComputerUsageParams in the invocation inv:
\* the results of the system calls are not looked at, and when a call fails
\* the structure it was to fill is read as it was declared, uninitialized.
RequestComputerUsageParams(failed, inv, garbage) ==
    IF "usage" \in failed THEN garbage ELSE <<"measured", inv>>

\* The name buffer is reported although GetComputerName failed.
GetUserInfoKeepsBuffer(failed) == <<"host">>

\* GetUserInfo: computerName is left as it was passed in, empty, when
\* GetComputerName fails.
GetUserInfo(failed) == IF "name" \in failed THEN <<>> ELSE <<"host">>

\* RequestProcessList: the number 1 when EnumProcesses fails.
RequestProcessList(failed, inv) ==
    IF "processes" \in failed THEN <<"1">> ELSE <<"processes", inv>>

\* The value insert statement idx computes in the invocation of frame f.
\* Values sampled from the clock, the engine or the system are tagged with the
\* invocation that sampled them.
AnnotationValue(idx, f) ==
    CASE idx = 1 -> <<"elapsed", f.inv>>
      [] idx = 2 -> IF obsActive THEN <<"initialized">> ELSE <<"shutdown">>
      [] idx = 3 -> <<"allocs", f.inv>>
      [] idx \in 4..7 -> RequestComputerUsageParams(f.failed, f.inv, f.garbage)
      [] idx \in 8..10 -> <<"obs log", f.inv>>
      [] idx = 11 -> RequestProcessList(f.failed, f.inv)
      [] idx = 12 -> IF "walk" \in f.failed THEN <<>> ELSE <<"frames", f.inv>>
      [] idx = 13 -> calls[f.inv].reason
      [] idx = 14 -> GetUserInfo(f.failed)
      [] idx = 15 -> breadcrumbs
      [] idx = 16 -> warnings

\* The latch is not looked at on entry.
NeverInside(inside) == FALSE

\* The test of the reentrancy latch on entry.
AlreadyInside(inside) == inside

\* The latch is left clear on entry.
LatchNotSet == FALSE

\* insideCrashMethod = true;
LatchSet == TRUE

\* if (insideCrashMethod) abort(); insideCrashMethod = true;
HandleCrashGuard ==
    /\ Running("HandleCrash", "guard")
    /\ IF AlreadyInside(insideCrashMethod)
       THEN /\ status' = "aborted"
            /\ calls' = [calls EXCEPT ![Top.inv].outcome = "abort_guard"]
            /\ UNCHANGED << insideCrashMethod, stack >>
       ELSE /\ insideCrashMethod' = LatchSet
            /\ stack' = SetTop(stack, [Top EXCEPT !.pc = "collect"])
            /\ UNCHANGED << status, calls >>
    /\ UNCHANGED << exitCode, initialized, handledOBSCrashes, annotations,
                    obsActive, breadcrumbs, warnings, arguments, handed, faults >>
    /\ UNCHANGED << threadState, walk, helperState >>

\* RewindCallStack, RequestComputerUsageParams, GetUserInfo and the elapsed
\* time; failed holds the queries that fail and garbage what the variables
\* of a failed usage query hold.
HandleCrashCollect(failed, garbage) ==
    /\ Running("HandleCrash", "collect")
    /\ stack' = SetTop(stack, [Top EXCEPT !.pc = "insert", !.failed = failed,
                                          !.garbage = garbage])
    /\ calls' = [calls EXCEPT ![Top.inv].collected = TRUE]
    /\ UNCHANGED << status, exitCode, initialized, handledOBSCrashes,
                    insideCrashMethod, annotations, obsActive, breadcrumbs,
                    warnings, arguments, handed, faults >>
    /\ UNCHANGED << threadState, walk, helperState >>

\* SetupCrashpad is called after the first insert statement.
AfterFirstInsert(i) == "setup"

\* Where HandleCrash stands after insert statement i.
AfterInsert(i) == IF i = NumInserts THEN "setup" ELSE "insert"

\* The next annotations.insert statement.  When the conversion of a json
\* value throws, the exception leaves the noexcept function: std::terminate
\* runs the terminate handler, which calls HandleCrash again.
HandleCrashInsert(converts) ==
    /\ Running("HandleCrash", "insert")
    /\ LET i == Top.idx + 1
       IN  /\ converts \/ i \in JsonValued
           /\ IF converts
              THEN /\ annotations' = MapInsert(annotations, InsertKeys[i],
                                               AnnotationValue(i, Top))
                   /\ stack' = SetTop(stack,
                          [Top EXCEPT !.idx = i,
                                      !.pc = AfterInsert(i)])
                   /\ calls' = [calls EXCEPT ![Top.inv].inserted = i]
              ELSE /\ InvokeHandleCrash(SetTop(stack, [Top EXCEPT !.pc = "thrown"]),
                                        TerminateReason, DefaultCallAbort, "noexcept",
                                        Top.fault)
                   /\ UNCHANGED annotations
    /\ UNCHANGED << status, exitCode, initialized, handledOBSCrashes,
                    insideCrashMethod, obsActive, breadcrumbs, warnings, arguments,
                    handed, faults >>
    /\ UNCHANGED << threadState, walk, helperState >>

\* SetupCrashpad(); its result is not looked at.
HandleCrashSetup(outcome) ==
    /\ Running("HandleCrash", "setup")
    /\ SetupCrashpad(outcome)
    /\ stack' = SetTop(stack, [Top EXCEPT !.pc = "finish"])
    /\ calls' = [calls EXCEPT ![Top.inv].setup = "called"]
    /\ UNCHANGED << status, exitCode, initialized, handledOBSCrashes,
                    insideCrashMethod, annotations, obsActive, breadcrumbs,
                    warnings, faults >>
    /\ UNCHANGED << threadState, walk, helperState >>

\* The latch is left set when HandleCrash returns.
LatchKept == TRUE

\* insideCrashMethod = false;
LatchCleared == FALSE

\* if (callAbort) abort(); insideCrashMethod = false;
HandleCrashFinish ==
    /\ Running("HandleCrash", "finish")
    /\ IF calls[Top.inv].callAbort
       THEN /\ status' = "aborted"
            /\ calls' = [calls EXCEPT ![Top.inv].outcome = "abort_end"]
            /\ UNCHANGED << insideCrashMethod, stack >>
       ELSE /\ insideCrashMethod' = LatchCleared
            /\ stack' = Pop(stack)
            /\ calls' = [calls EXCEPT ![Top.inv].outcome = "returned"]
            /\ UNCHANGED status
    /\ UNCHANGED << exitCode, initialized, handledOBSCrashes, annotations,
                    obsActive, breadcrumbs, warnings, arguments, handed, faults >>
    /\ UNCHANGED << threadState, walk, helperState >>

(***************************************************************************)
(* The specification.                                                      *)
(***************************************************************************)
HasConversion(format) == \E k \in 1..Len(format) : format[k] = "%"

Next ==
    \/ \E outcome \in SetupOutcomes : Initialize(outcome)
    \/ \E signature \in Signatures : Configure(signature)
    \/ \E active \in BOOLEAN : SetEngine(active)
    \/ \E code \in {0, 1} : Exit(code)
    \/ FinishExit
    \/ \E format \in Formats, arg \in Arguments :
          /\ HasConversion(format) \/ arg = <<"d">>
          /\ RaiseOBSCrash(format, arg)
    \/ RaiseTerminate
    \/ \E debuggerPresent \in BOOLEAN : RaiseUnhandledException(debuggerPresent)
    \/ CrashCallbackUnknown
    \/ TryHandleCrash
    \/ ReleaseCompletes
    \/ ReleaseThrows
    \/ QuietExit
    \/ ReleaseFallback
    \/ HandleExit
    \/ HandleExitReturns
    \/ HandleCrashGuard
    \/ \E failed \in QueryFailures : HandleCrashCollect(failed, <<>>)
    \/ \E converts \in BOOLEAN : HandleCrashInsert(converts)
    \/ \E outcome \in SetupOutcomes : HandleCrashSetup(outcome)
    \/ HandleCrashFinish

Spec == Init /\ [][Next]_vars

\* A step of the thread that is running a handler, or of exit processing.
HandlerStep ==
    \/ FinishExit
    \/ CrashCallbackUnknown
    \/ TryHandleCrash
    \/ ReleaseCompletes
    \/ ReleaseThrows
    \/ QuietExit
    \/ ReleaseFallback
    \/ HandleExit
    \/ HandleExitReturns
    \/ HandleCrashGuard
    \/ \E failed \in QueryFailures : HandleCrashCollect(failed, <<>>)
    \/ \E converts \in BOOLEAN : HandleCrashInsert(converts)
    \/ \E outcome \in SetupOutcomes : HandleCrashSetup(outcome)
    \/ HandleCrashFinish

\* The hooks on their own: Initialize has installed them and Configure has
\* registered any list of signatures.
InitHooks ==
    /\ status = "running"
    /\ exitCode = -1
    /\ initialized = TRUE
    /\ handledOBSCrashes \in SeqsUpTo(Signatures, MaxSigs)
    /\ insideCrashMethod = FALSE
    /\ annotations = EmptyMap
    /\ obsActive \in BOOLEAN
    /\ breadcrumbs = <<>>
    /\ warnings = <<>>
    /\ arguments = << "--no-rate-limit" >>
    /\ handed = << EmptyMap >>
    /\ stack = <<>>
    /\ calls = <<>>
    /\ faults = 0
    /\ messageMutex = 0
    /\ threads = [t \in Threads |-> IdleThread]
    /\ cleared = FALSE
    /\ walk = NoWalk
    /\ HelpersUnused

NextHooks ==
    \/ \E code \in {0, 1} : Exit(code)
    \/ \E format \in Formats, arg \in Arguments :
          /\ HasConversion(format) \/ arg = <<"d">>
          /\ RaiseOBSCrash(format, arg)
    \/ RaiseTerminate
    \/ \E debuggerPresent \in BOOLEAN : RaiseUnhandledException(debuggerPresent)
    \/ HandlerStep

\* The thread inside a handler keeps running, and every call the handlers
\* make into the engine, the system or the backend comes back.
SpecHooks == InitHooks /\ [][NextHooks]_vars /\ WF_vars(HandlerStep)

(***************************************************************************)
(* The known-crash test on its own: the process has been configured with   *)
(* any list of signatures and the crash callback has just been entered     *)
(* with any format.                                                        *)
(***************************************************************************)
SignatureLists == SeqsUpTo(FilterSignatures, MaxFilterSigs)

InitFilter ==
    /\ status = "running"
    /\ exitCode = -1
    /\ initialized = TRUE
    /\ handledOBSCrashes \in SignatureLists
    /\ insideCrashMethod = FALSE
    /\ annotations = EmptyMap
    /\ obsActive = TRUE
    /\ breadcrumbs = <<>>
    /\ warnings = <<>>
    /\ arguments = << "--no-rate-limit" >>
    /\ handed = << EmptyMap >>
    /\ \E format \in FilterFormats, arg \in Arguments :
          stack = CrashCallback(format, arg, 1)
    /\ calls = <<>>
    /\ faults = 1
    /\ messageMutex = 0
    /\ threads = [t \in Threads |-> IdleThread]
    /\ cleared = FALSE
    /\ walk = NoWalk
    /\ HelpersUnused

NextFilter == TryHandleCrash

SpecFilter == InitFilter /\ [][NextFilter]_vars

(***************************************************************************)
(* The diagnostic log and the threads of the host.  A log operation is     *)
(* a sequence of steps of one thread: the lock is taken, the vector is     *)
(* changed, the lock is given back.  push_back is two steps, the read of   *)
(* the vector's end and the store of the element there, so that it is the  *)
(* lock, and not the model, that keeps two appends apart.                  *)
(***************************************************************************)
At(t, op, pc) ==
    status = "running" /\ threads[t].op = op /\ threads[t].pc = pc

\* The lock is never found taken.
MutexAlwaysFree(mutex) == TRUE

\* std::mutex: lock() goes on when no thread holds the mutex.
MutexFree(mutex) == mutex = 0

\* std::lock_guard<std::mutex> lock(messageMutex); at the head of op.
LockMessages(t, op, arg) ==
    /\ At(t, "none", "idle")
    /\ MutexFree(messageMutex)
    /\ messageMutex' = t
    /\ threads' = [threads EXCEPT ![t].op = op, ![t].pc = "locked", ![t].arg = arg]

\* The lock_guard goes out of scope when op returns.
UnlockMessages(t, op) ==
    /\ At(t, op, "written")
    /\ messageMutex' = 0
    /\ threads' = [threads EXCEPT ![t].op = "none", ![t].pc = "idle",
                                  ![t].arg = <<>>, ![t].end = 0]

\* The element is stored in front of the others.
PushFrontStore(log, end, x) == <<x>> \o log

\* std::vector::push_back, second half: x is stored at the end read before.
PushBackStore(log, end, x) ==
    IF end <= Len(log) THEN SubSeq(log, 1, end) \o <<x>> ELSE log \o <<x>>

crashHistory == << status, exitCode, initialized, handledOBSCrashes,
                   insideCrashMethod, annotations, obsActive, arguments, handed,
                   stack, calls, faults, walk, helperState >>

\* The appends thread t has completed, to either log.
Appends(t) == threads[t].crumbs + threads[t].warns

AddWarning(t, warning) ==
    /\ \/ /\ Appends(t) < MaxLog
          /\ LockMessages(t, "AddWarning", warning)
          /\ UNCHANGED warnings
       \/ /\ At(t, "AddWarning", "locked")
          /\ threads' = [threads EXCEPT ![t].pc = "reserved", ![t].end = Len(warnings)]
          /\ UNCHANGED << warnings, messageMutex >>
       \/ /\ At(t, "AddWarning", "reserved")
          /\ warnings' = PushBackStore(warnings, threads[t].end, threads[t].arg)
          /\ threads' = [threads EXCEPT ![t].pc = "written",
                                        ![t].warns = threads[t].warns + 1]
          /\ UNCHANGED messageMutex
       \/ /\ UnlockMessages(t, "AddWarning")
          /\ UNCHANGED warnings
    /\ UNCHANGED << breadcrumbs, cleared, crashHistory >>

AddBreadcrumb(t, message) ==
    /\ \/ /\ Appends(t) < MaxLog
          /\ LockMessages(t, "AddBreadcrumb", message)
          /\ UNCHANGED breadcrumbs
       \/ /\ At(t, "AddBreadcrumb", "locked")
          /\ threads' = [threads EXCEPT ![t].pc = "reserved", ![t].end = Len(breadcrumbs)]
          /\ UNCHANGED << breadcrumbs, messageMutex >>
       \/ /\ At(t, "AddBreadcrumb", "reserved")
          /\ breadcrumbs' = PushBackStore(breadcrumbs, threads[t].end, threads[t].arg)
          /\ threads' = [threads EXCEPT ![t].pc = "written",
                                        ![t].crumbs = threads[t].crumbs + 1]
          /\ UNCHANGED messageMutex
       \/ /\ UnlockMessages(t, "AddBreadcrumb")
          /\ UNCHANGED breadcrumbs
    /\ UNCHANGED << warnings, cleared, crashHistory >>

\* breadcrumbs.clear() under the lock.  The model lets the log be cleared once.
ClearBreadcrumbs(t) ==
    /\ \/ /\ ~cleared
          /\ breadcrumbs # <<>>
          /\ LockMessages(t, "ClearBreadcrumbs", <<>>)
          /\ UNCHANGED << breadcrumbs, cleared >>
       \/ /\ At(t, "ClearBreadcrumbs", "locked")
          /\ breadcrumbs' = <<>>
          /\ cleared' = TRUE
          /\ threads' = [threads EXCEPT ![t].pc = "written"]
          /\ UNCHANGED messageMutex
       \/ /\ UnlockMessages(t, "ClearBreadcrumbs")
          /\ UNCHANGED << breadcrumbs, cleared >>
    /\ UNCHANGED << warnings, crashHistory >>

(***************************************************************************)
(* The read accessors.  A nlohmann::json is its type and its elements.     *)
(***************************************************************************)
JsonNull == [type |-> "null", items |-> <<>>]

\* The element is put in front of the others.
JsonPushFront(j, x) == [type |-> "array", items |-> <<x>> \o j.items]

\* nlohmann::json::push_back: null becomes an array, the element goes last.
JsonPushBack(j, x) == [type |-> "array", items |-> Append(j.items, x)]

\* for (auto& msg : log) result.push_back(msg); from element k on.
RECURSIVE ComputeLog(_, _, _)
ComputeLog(log, k, result) ==
    IF k > Len(log) THEN result
    ELSE ComputeLog(log, k + 1, JsonPushBack(result, log[k]))

ComputeBreadcrumbs(crumbs) == ComputeLog(crumbs, 1, JsonNull)
ComputeWarnings(warns) == ComputeLog(warns, 1, JsonNull)

\* The accessors take the lock as the appends do.
ComputeLocksMutex == TRUE

\* ComputeBreadcrumbs and ComputeWarnings declare no lock_guard.
ComputeLocks == FALSE

(***************************************************************************)
(* HandleCrash on a thread of the host, as far as it touches what the      *)
(* threads share: the latch, the two logs and the lock.  The fault hits    *)
(* the thread where it is, inside a log operation too, and the hook runs   *)
(* on that thread without unwinding it.                                    *)
(***************************************************************************)
Fault(t) ==
    /\ status = "running"
    /\ threads[t].op # "HandleCrash"
    /\ threads' = [threads EXCEPT ![t].op = "HandleCrash", ![t].pc = "guard"]
    /\ UNCHANGED << logState, messageMutex, cleared, crashHistory >>

\* if (insideCrashMethod) abort();
HandleCrashTest(t) ==
    /\ At(t, "HandleCrash", "guard")
    /\ IF AlreadyInside(insideCrashMethod)
       THEN /\ status' = "aborted"
            /\ threads' = [threads EXCEPT ![t].pc = "aborted"]
       ELSE /\ threads' = [threads EXCEPT ![t].pc = "latch"]
            /\ UNCHANGED status
    /\ UNCHANGED << exitCode, initialized, handledOBSCrashes, insideCrashMethod,
                    annotations, obsActive, arguments, handed, stack, calls,
                    faults, walk, helperState, logState, messageMutex,
                    cleared >>

\* insideCrashMethod = true; and on to the insert of "Breadcrumbs".
HandleCrashLatch(t) ==
    /\ At(t, "HandleCrash", "latch")
    /\ insideCrashMethod' = LatchSet
    /\ threads' = [threads EXCEPT ![t].pc = "Breadcrumbs", ![t].passed = TRUE]
    /\ UNCHANGED << status, exitCode, initialized, handledOBSCrashes,
                    annotations, obsActive, arguments, handed, stack, calls,
                    faults, walk, helperState, logState, messageMutex,
                    cleared >>

ReadPcs == {"Breadcrumbs", "Warnings"}
InsidePc(pc) == IF pc = "Breadcrumbs" THEN "ComputeBreadcrumbs" ELSE "ComputeWarnings"

\* The call of ComputeBreadcrumbs, then of ComputeWarnings.
HandleCrashCompute(t) ==
    /\ status = "running"
    /\ threads[t].op = "HandleCrash"
    /\ threads[t].pc \in ReadPcs
    /\ IF ComputeLocks
       THEN MutexFree(messageMutex) /\ messageMutex' = t
       ELSE UNCHANGED messageMutex
    /\ threads' = [threads EXCEPT ![t].pc = InsidePc(threads[t].pc)]
    /\ UNCHANGED << logState, cleared, crashHistory >>

\* The accessor reads the log and returns; the result is converted for the
\* insert.  When the conversion throws, the terminate handler calls
\* HandleCrash on the same thread.
HandleCrashRead(t, converts) ==
    /\ status = "running"
    /\ threads[t].op = "HandleCrash"
    /\ \/ /\ threads[t].pc = "ComputeBreadcrumbs"
          /\ threads' = [threads EXCEPT
                 ![t].readB = ComputeBreadcrumbs(breadcrumbs),
                 ![t].pc = IF converts THEN "Warnings" ELSE "guard"]
       \/ /\ threads[t].pc = "ComputeWarnings"
          /\ threads' = [threads EXCEPT
                 ![t].readW = ComputeWarnings(warnings),
                 ![t].pc = IF converts THEN "abort" ELSE "guard"]
    /\ IF ComputeLocks THEN messageMutex' = 0 ELSE UNCHANGED messageMutex
    /\ UNCHANGED << logState, cleared, crashHistory >>

\* SetupCrashpad and abort() at the end of HandleCrash.
HandleCrashAbort(t) ==
    /\ At(t, "HandleCrash", "abort")
    /\ status' = "aborted"
    /\ threads' = [threads EXCEPT ![t].pc = "aborted"]
    /\ UNCHANGED << exitCode, initialized, handledOBSCrashes, insideCrashMethod,
                    annotations, obsActive, arguments, handed, stack, calls,
                    faults, walk, helperState, logState, messageMutex,
                    cleared >>

CrashStep(t) ==
    \/ HandleCrashTest(t)
    \/ HandleCrashLatch(t)
    \/ HandleCrashCompute(t)
    \/ \E converts \in BOOLEAN : HandleCrashRead(t, converts)
    \/ HandleCrashAbort(t)

InitLog ==
    /\ status = "running"
    /\ exitCode = -1
    /\ initialized = TRUE
    /\ handledOBSCrashes = <<>>
    /\ insideCrashMethod = FALSE
    /\ annotations = EmptyMap
    /\ obsActive = TRUE
    /\ breadcrumbs = <<>>
    /\ warnings = <<>>
    /\ arguments = << "--no-rate-limit" >>
    /\ handed = << EmptyMap >>
    /\ stack = <<>>
    /\ calls = <<>>
    /\ faults = 0
    /\ messageMutex = 0
    /\ threads = [t \in Threads |-> IdleThread]
    /\ cleared = FALSE
    /\ walk = NoWalk
    /\ HelpersUnused

\* Every entry a thread appends names the thread and the number of the append.
NextLog ==
    \/ \E t \in Threads : AddWarning(t, <<t, threads[t].warns + 1>>)
    \/ \E t \in Threads : AddBreadcrumb(t, <<t, threads[t].crumbs + 1>>)
    \/ \E t \in Threads : ClearBreadcrumbs(t)
    \/ \E t \in Threads : Fault(t)
    \/ \E t \in Threads : CrashStep(t)

SpecLog == InitLog /\ [][NextLog]_vars

\* A thread that is inside HandleCrash keeps running.
SpecLogFair == SpecLog /\ \A t \in Threads : WF_vars(CrashStep(t))

(***************************************************************************)
(* RewindCallStack.  A frame is its index in callers_stack, 0 being the    *)
(* frame of the caller of the capture; an emitted entry stands for the     *)
(* function, file, line and addresses resolved for that index.             *)
(***************************************************************************)
kMaxCallers == 62
MAX_CALLERS_SHOWN == 50

DigitChars == << "0", "1", "2", "3", "4", "5", "6", "7", "8", "9" >>

\* std::to_string of an int: the decimal digits, with a sign when negative.
RECURSIVE to_string(_)
to_string(n) ==
    IF n < 0 THEN <<"-">> \o to_string(0 - n)
    ELSE IF n < 10 THEN << DigitChars[n + 1] >>
    ELSE to_string(n \div 10) \o << DigitChars[(n % 10) + 1] >>

\* RtlCaptureStackBackTrace(0, kMaxCallers, ...): the number of frames captured.
CaptureStackBackTrace(depth) == IF depth < kMaxCallers THEN depth ELSE kMaxCallers

\* Every captured frame is rendered.
ShownAll(frames) == frames

\* frames = frames < MAX_CALLERS_SHOWN ? frames : MAX_CALLERS_SHOWN;
ShownFrames(frames) == IF frames < MAX_CALLERS_SHOWN THEN frames ELSE MAX_CALLERS_SHOWN

\* line.FileName of frame i, one element per path component or separator.
FullPath(w, i) ==
    IF i = w.own
    THEN << "c:", "\\", "source", "\\", "util-crashmanager.cpp" >>
    ELSE << "c:", "\\", "source", "\\", "nodeobs_api.cpp" >>

\* std::string::rfind of the one-element string t, scanning back from offset
\* pos: the last offset at or before pos at which t stands in s, or npos.
RECURSIVE rfind(_, _, _)
rfind(s, t, pos) ==
    IF pos < 0 THEN npos
    ELSE IF pos < Len(s) /\ s[pos + 1] = t THEN pos
    ELSE rfind(s, t, pos - 1)

\* Every path passes for a file other than util-crashmanager.cpp.
FileNameOfNone(fullPath) == <<>>

\* The file name taken from the full path: what follows the last backslash,
\* and nothing when the path holds no backslash.
FileNameOf(fullPath) ==
    LET pos == rfind(fullPath, "\\", Len(fullPath))
    IN  IF pos # npos THEN SubSeq(fullPath, pos + 2, Len(fullPath)) ELSE <<>>

\* The name the walk leaves out of the report.
OwnFile == << "util-crashmanager.cpp" >>

\* What the lookups answer for frame i: "fail" when SymFromAddr or
\* SymGetLineFromAddr64 fails, "own" when the file name taken from the path
\* is util-crashmanager.cpp.
FrameKind(w, i) ==
    IF w.failFrom <= i /\ i <= w.failTo THEN "fail"
    ELSE IF FileNameOf(FullPath(w, i)) = OwnFile THEN "own"
    ELSE "ok"

\* A frame of util-crashmanager.cpp stores its function name like any other.
SkippedFrameSetsName(crashedMethod, i) == i

\* The continue of a frame of util-crashmanager.cpp comes before the
\* assignment to crashedMethod: the name stored so far stays.
SkippedFrameName(crashedMethod, i) == crashedMethod

\* The loop runs down to index 0 whatever skip is.
PastLastNoSkip(i, skip) == i < 0

\* The loop condition i >= int(skip), negated.
PastLast(i, skip) == i < skip

\* entry["frames omitted"] = {to_string(missingFrames.back()), to_string(i)}
FramesOmitted(missingFrames, i) ==
    << to_string(missingFrames[Len(missingFrames)]), to_string(i) >>

\* A frame of util-crashmanager.cpp discards the failed frames noted so far.
PendingDropped(missingFrames) == <<>>

\* missingFrames after the continue of a frame of util-crashmanager.cpp: the
\* vector is cleared only where an entry is emitted.
PendingKept(missingFrames) == missingFrames

\* The body of the for loop from index i on.  acc is the walk so far.
RECURSIVE RewindLoop(_, _, _)
RewindLoop(i, missingFrames, acc) ==
    IF PastLast(i, acc.skip) THEN acc
    ELSE LET seen == [acc EXCEPT !.visited = Append(acc.visited, i)]
             kind == FrameKind(acc, i)
         IN  IF kind = "fail"
             THEN RewindLoop(i - 1, Append(missingFrames, i), seen)
             ELSE IF kind = "own"
             THEN RewindLoop(i - 1, PendingKept(missingFrames),
                             [seen EXCEPT !.crashedMethod =
                                              SkippedFrameName(seen.crashedMethod, i)])
             ELSE LET entry ==
                          [frame |-> i,
                           filename |-> FileNameOf(FullPath(acc, i)),
                           omitted |-> IF Len(missingFrames) > 0
                                       THEN FramesOmitted(missingFrames, i)
                                       ELSE <<>>]
                  IN  RewindLoop(i - 1, <<>>,
                                 [seen EXCEPT !.result = Append(seen.result, entry),
                                              !.crashedMethod = i])

\* RewindCallStack(skip, crashedMethod) on the stack described by w.
RewindCallStack(w) ==
    LET frames == CaptureStackBackTrace(w.depth)
        started == [w EXCEPT !.frames = frames, !.done = TRUE]
    IN  RewindLoop(ShownFrames(frames) - 1, <<>>, started)

\* The stack walk is run.
Rewind ==
    /\ ~walk.done
    /\ walk' = RewindCallStack(walk)
    /\ UNCHANGED << status, exitCode, initialized, handledOBSCrashes,
                    insideCrashMethod, annotations, obsActive, breadcrumbs,
                    warnings, arguments, handed, stack, calls, faults,
                    threadState, helperState >>

\* Where the run of failing frames starts: near the innermost frame, or
\* where the frames shown end.
FailStarts ==
    (0..MaxFailAt) \cup {MAX_CALLERS_SHOWN - 2 + k : k \in 0..MaxRun}

InitWalk ==
    /\ status = "running"
    /\ exitCode = -1
    /\ initialized = TRUE
    /\ handledOBSCrashes = <<>>
    /\ insideCrashMethod = FALSE
    /\ annotations = EmptyMap
    /\ obsActive = TRUE
    /\ breadcrumbs = <<>>
    /\ warnings = <<>>
    /\ arguments = << "--no-rate-limit" >>
    /\ handed = << EmptyMap >>
    /\ stack = <<>>
    /\ calls = <<>>
    /\ faults = 0
    /\ messageMutex = 0
    /\ threads = [t \in Threads |-> IdleThread]
    /\ cleared = FALSE
    /\ HelpersUnused
    /\ \E depth \in 0..MaxDepth, skip \in 0..MaxSkip, failFrom \in FailStarts,
          run \in 0..MaxRun, own \in -1..MaxFailAt :
           walk = NewWalk(depth, skip, failFrom, failFrom + run - 1, own)

NextWalk == Rewind

SpecWalk == InitWalk /\ [][NextWalk]_vars

(***************************************************************************)
(* One invocation of HandleCrash on its own: a hook has called it, and any *)
(* of its queries can fail.                                                *)
(***************************************************************************)
InitReport ==
    /\ status = "running"
    /\ exitCode = -1
    /\ initialized = TRUE
    /\ handledOBSCrashes = <<>>
    /\ insideCrashMethod = FALSE
    /\ annotations = EmptyMap
    /\ obsActive = TRUE
    /\ breadcrumbs = <<>>
    /\ warnings = <<>>
    /\ arguments = << "--no-rate-limit" >>
    /\ handed = << EmptyMap >>
    /\ stack = << Frame("HandleCrash", "guard", <<>>, <<>>, 1, 1) >>
    /\ \/ calls = << Call(FilterReason, DefaultCallAbort, "filter", 1) >>
       \/ calls = << Call(AtExitReason, FALSE, "exit", 1) >>
    /\ faults = 1
    /\ messageMutex = 0
    /\ threads = [t \in Threads |-> IdleThread]
    /\ cleared = FALSE
    /\ walk = NoWalk
    /\ HelpersUnused

NextReport ==
    \/ HandleCrashGuard
    \/ \E failed \in SUBSET Queries :
          \E garbage \in (IF "usage" \in failed THEN Indeterminate ELSE {<<>>}) :
             HandleCrashCollect(failed, garbage)
    \/ \E converts \in BOOLEAN : HandleCrashInsert(converts)
    \/ \E outcome \in SetupOutcomes : HandleCrashSetup(outcome)
    \/ HandleCrashFinish

\* The thread that runs HandleCrash keeps running.
SpecReport == InitReport /\ [][NextReport]_vars /\ WF_vars(NextReport)

(***************************************************************************)
(* RequestOBSLog on its own: the engine has logged any messages, and the   *)
(* logs are requested, as the three insert statements of HandleCrash do.   *)
(***************************************************************************)
OBSLogType == {"Errors", "Warnings", "General"}
OBSMessages == {"a", "b"}

\* The general log is copied like the two others and keeps its messages.
DrainLogKeeps(general, result) ==
    [queue |-> general, result |-> ComputeLog(general, 1, result)]

\* while (!general.empty()) { result.push_back(general.front()); general.pop(); }
RECURSIVE DrainLog(_, _)
DrainLog(general, result) ==
    IF general = <<>> THEN [queue |-> general, result |-> result]
    ELSE DrainLog(Tail(general), JsonPushBack(result, Head(general)))

\* RequestOBSLog(type): the json returned and the logs as the call leaves them.
RequestOBSLogResult(type, log) ==
    CASE type = "Errors" ->
             [result |-> ComputeLog(log.errors, 1, JsonNull), log |-> log]
      [] type = "Warnings" ->
             [result |-> ComputeLog(log.warnings, 1, JsonNull), log |-> log]
      [] type = "General" ->
             LET drained == DrainLog(log.general, JsonNull)
             IN  [result |-> drained.result,
                  log |-> [log EXCEPT !.general = drained.queue]]

RequestOBSLog(type) ==
    /\ Len(requests) < MaxRequests
    /\ LET call == RequestOBSLogResult(type, obsLog)
       IN  /\ obsLog' = call.log
           /\ requests' = Append(requests, [type |-> type, result |-> call.result])
    /\ UNCHANGED << status, exitCode, initialized, handledOBSCrashes,
                    insideCrashMethod, annotations, obsActive, breadcrumbs,
                    warnings, arguments, handed, stack, calls, faults,
                    threadState, walk, pretty, contentState >>

InitOBSLog ==
    /\ status = "running"
    /\ exitCode = -1
    /\ initialized = TRUE
    /\ handledOBSCrashes = <<>>
    /\ insideCrashMethod = FALSE
    /\ annotations = EmptyMap
    /\ obsActive = TRUE
    /\ breadcrumbs = <<>>
    /\ warnings = <<>>
    /\ arguments = << "--no-rate-limit" >>
    /\ handed = << EmptyMap >>
    /\ stack = <<>>
    /\ calls = <<>>
    /\ faults = 0
    /\ messageMutex = 0
    /\ threads = [t \in Threads |-> IdleThread]
    /\ cleared = FALSE
    /\ walk = NoWalk
    /\ obsLog \in [errors : SeqsUpTo(OBSMessages, MaxOBSLog),
                    warnings : SeqsUpTo(OBSMessages, MaxOBSLog),
                    general : SeqsUpTo(OBSMessages, MaxOBSLog)]
    /\ requests = <<>>
    /\ pretty = NoBytes
    /\ ContentUnused

NextOBSLog == \E type \in OBSLogType : RequestOBSLog(type)

SpecOBSLog == InitOBSLog /\ [][NextOBSLog]_vars

(***************************************************************************)
(* PrettyBytes on its own.  A uint64_t is given by its digits to the base  *)
(* 1024, most significant first, so that a division by 1024 moves one      *)
(* digit behind the point and no number in the model leaves 32 bits.       *)
(***************************************************************************)
Radix == 1024
MantissaBits == 53

suffixes == << <<"b">>, <<"k", "b">>, <<"m", "b">>, <<"g", "b">>, <<"t", "b">>,
              <<"p", "b">>, <<"e", "b">> >>

RECURSIVE Pow2(_)
Pow2(e) == IF e = 0 THEN 1 ELSE 2 * Pow2(e - 1)

\* The number of binary digits of n.
RECURSIVE BitLength(_)
BitLength(n) == IF n = 0 THEN 0 ELSE 1 + BitLength(n \div 2)

RECURSIVE Zeros(_)
Zeros(n) == IF n = 0 THEN <<>> ELSE <<0>> \o Zeros(n - 1)

AllZero(digits) == \A k \in 1..Len(digits) : digits[k] = 0

\* digits + carry, the carry added at the least significant digit.
RECURSIVE AddCarry(_, _)
AddCarry(digits, carry) ==
    IF carry = 0 THEN digits
    ELSE IF digits = <<>> THEN << carry >>
    ELSE LET n == Len(digits)
             v == digits[n] + carry
         IN  AddCarry(SubSeq(digits, 1, n - 1), v \div Radix) \o << v % Radix >>

\* double(bytes): a number of more than 53 binary digits is rounded to 53,
\* to the nearest and to even on a tie.  The digits dropped lie in the last
\* two digits to the base 1024.
ToDouble(bytes) ==
    LET n == Len(bytes)
        e == BitLength(bytes[1]) + 10 * (n - 1) - MantissaBits
    IN  IF e <= 0 THEN bytes
        ELSE LET low == bytes[n - 1] * Radix + bytes[n]
                 q == low \div Pow2(e)
                 rem == low % Pow2(e)
                 half == Pow2(e - 1)
                 up == rem > half \/ (rem = half /\ q % 2 = 1)
                 rounded == (IF up THEN q + 1 ELSE q) * Pow2(e)
             IN  AddCarry(SubSeq(bytes, 1, n - 2), rounded \div (Radix * Radix))
                     \o << (rounded \div Radix) % Radix, rounded % Radix >>

\* The loop stops at the unit pb.
ScalesToPeta(whole, s) == Len(whole) > 1 /\ s < 5

\* count >= 1024 && s < 7, for a count whose digits before the point are
\* whole.
Scales(whole, s) == Len(whole) > 1 /\ s < 7

\* while (count >= 1024 && s < 7) { s++; count /= 1024; }  count is whole
\* before the point and frac behind it.
RECURSIVE ScaleLoop(_, _, _)
ScaleLoop(whole, frac, s) ==
    IF Scales(whole, s)
    THEN ScaleLoop(SubSeq(whole, 1, Len(whole) - 1),
                   << whole[Len(whole)] >> \o frac, s + 1)
    ELSE [whole |-> whole, frac |-> frac, s |-> s]

\* Ten times a fraction: the digit before the point and the rest behind it.
RECURSIVE TimesTen(_)
TimesTen(frac) ==
    IF frac = <<>> THEN [carry |-> 0, frac |-> <<>>]
    ELSE LET rest == TimesTen(Tail(frac))
             v == 10 * Head(frac) + rest.carry
         IN  [carry |-> v \div Radix, frac |-> << v % Radix >> \o rest.frac]

\* sprintf "%.1f": the value rounded to tenths, to the nearest, printed with
\* one digit behind the point.  On a tie the C runtime rounds to even, or
\* away from zero when tiesAway (runtimes differ in this).
OneDecimal(whole, frac, tiesAway) ==
    LET t == TimesTen(frac)
        tie == t.frac[1] = Radix \div 2 /\ AllZero(Tail(t.frac))
        up == IF tie THEN (tiesAway \/ t.carry % 2 = 1) ELSE t.frac[1] >= Radix \div 2
        tenths == 10 * whole + t.carry + (IF up THEN 1 ELSE 0)
    IN  to_string(tenths \div 10) \o <<".">> \o to_string(tenths % 10)

\* Every count is printed as a whole number.
AlwaysWhole(frac) == TRUE

\* count - floor(count) == 0.0
IsWhole(frac) == AllZero(frac)

\* PrettyBytes(bytes): the string returned.
PrettyBytes(bytes, tiesAway) ==
    LET count == ScaleLoop(ToDouble(bytes), <<>>, 0)
    IN  IF IsWhole(count.frac)
        THEN to_string(count.whole[1]) \o suffixes[count.s + 1]
        ELSE OneDecimal(count.whole[1], count.frac, tiesAway) \o suffixes[count.s + 1]

\* PrettyBytes is called.
CallPrettyBytes(tiesAway) ==
    /\ ~pretty.done
    /\ pretty' = [pretty EXCEPT !.done = TRUE,
                                !.text = PrettyBytes(pretty.bytes, tiesAway)]
    /\ UNCHANGED << status, exitCode, initialized, handledOBSCrashes,
                    insideCrashMethod, annotations, obsActive, breadcrumbs,
                    warnings, arguments, handed, stack, calls, faults,
                    threadState, walk, obsLog, requests, contentState >>

\* The fractions of a unit tried, in 1024ths.
Fractions == {0, 1, 256, 512, 768, 1023}

\* The byte counts tried: nothing, whole units with a fraction of the unit
\* for every unit, 2^32 - 1, and counts of more than 53 binary digits, up to
\* 2^64 - 1, which is what -1 converts to.
ByteInputs ==
    {<<0>>}
    \cup {<<m>> : m \in (1..MaxMantissa) \cup {1023}}
    \cup {<<m, f>> \o Zeros(k - 1) :
             m \in (1..MaxMantissa) \cup {1023}, f \in Fractions, k \in 1..5}
    \cup {<<m, f>> \o Zeros(5) : m \in (1..MaxMantissa) \cup {15}, f \in Fractions}
    \cup {<<8, 0, 0, 0, 0, 1>>, <<8, 0, 0, 0, 0, 3>>,
          <<3, 1023, 1023, 1023>>,
          <<1023, 1023, 1023, 1023, 1023, 1023>>,
          <<15, 1023, 1023, 1023, 1023, 1023, 1023>>}

InitBytes ==
    /\ status = "running"
    /\ exitCode = -1
    /\ initialized = TRUE
    /\ handledOBSCrashes = <<>>
    /\ insideCrashMethod = FALSE
    /\ annotations = EmptyMap
    /\ obsActive = TRUE
    /\ breadcrumbs = <<>>
    /\ warnings = <<>>
    /\ arguments = << "--no-rate-limit" >>
    /\ handed = << EmptyMap >>
    /\ stack = <<>>
    /\ calls = <<>>
    /\ faults = 0
    /\ messageMutex = 0
    /\ threads = [t \in Threads |-> IdleThread]
    /\ cleared = FALSE
    /\ walk = NoWalk
    /\ obsLog = NoOBSLog
    /\ requests = <<>>
    /\ \E bytes \in ByteInputs : pretty = NewBytes(bytes)
    /\ ContentUnused

NextBytes == \E tiesAway \in BOOLEAN : CallPrettyBytes(tiesAway)

SpecBytes == InitBytes /\ [][NextBytes]_vars

(***************************************************************************)
(* The display registry of nodeobs_common.cpp.  A display is known by its  *)
(* place in `objects`, the displays in the order they were constructed;    *)
(* the record of a display holds the window handle and the source name it  *)
(* was constructed with, the key it was registered under, the number of    *)
(* times it was deleted and the setter called on it last.  Every           *)
(* operation is given a vector for its return values, holding rval0.       *)
(***************************************************************************)
Keys == {"a", "b"}
WindowHandles == {"hwnd"}
SourceNames == {"cam", "mic"}
Rvals == {<<>>, <<"x">>}

\* OBS::Display(windowHandle) is constructed without a source name.
NoSource == ""

\* new OBS::Display(windowHandle) and new OBS::Display(windowHandle, sourceName)
NewDisplay(windowHandle, sourceName, key) ==
    [window |-> windowHandle, source |-> sourceName, key |-> key,
     deleted |-> 0, last |-> <<>>]

\* The engine and the crash manager take no part in a content operation.
outsideContent == << status, exitCode, initialized, handledOBSCrashes,
                     insideCrashMethod, annotations, obsActive, breadcrumbs,
                     warnings, arguments, handed, stack, calls, faults,
                     threadState, walk, obsLog, requests, pretty >>

\* The key is taken for new whatever the registry holds.
NeverFound(key) == FALSE

\* displays.find(*key) != displays.end()
Found(key) == key \in DOMAIN displays

\* The record of the call of op with key, or of an operation without a key
\* (key "") that found what it looked for or did not.
Called(op, key, found, rval0) ==
    [op |-> op, key |-> key, point |-> <<>>, found |-> found, rval0 |-> rval0]

\* displays[*key] = display;
MapAssign(map, key, display) ==
    [k \in DOMAIN map \cup {key} |-> IF k = key THEN display ELSE map[k]]

\* The entry stays in the registry.
EraseNothing(map, key) == map

\* displays.erase(found);
MapErase(map, key) == [k \in DOMAIN map \ {key} |-> map[k]]

\* A display is constructed and registered under key.
Register(windowHandle, sourceName, key) ==
    /\ Len(objects) < MaxDisplays
    /\ objects' = Append(objects, NewDisplay(windowHandle, sourceName, key))
    /\ displays' = MapAssign(displays, key, Len(objects) + 1)

OBS_content_createDisplay(windowHandle, key, rval0) ==
    /\ lastCall' = Called("createDisplay", key, Found(key), rval0)
    /\ rval' = rval0
    /\ IF Found(key)
       THEN UNCHANGED << displays, objects >>
       ELSE Register(windowHandle, NoSource, key)
    /\ UNCHANGED << sourceSelected, scene, outsideContent >>

OBS_content_createSourcePreviewDisplay(windowHandle, sourceName, key, rval0) ==
    /\ lastCall' = Called("createSourcePreviewDisplay", key, Found(key), rval0)
    /\ rval' = rval0
    /\ IF Found(key)
       THEN UNCHANGED << displays, objects >>
       ELSE Register(windowHandle, sourceName, key)
    /\ UNCHANGED << sourceSelected, scene, outsideContent >>

\* delete found->second; displays.erase(found);
OBS_content_destroyDisplay(key, rval0) ==
    /\ lastCall' = Called("destroyDisplay", key, Found(key), rval0)
    /\ rval' = rval0
    /\ IF Found(key)
       THEN /\ objects' = [objects EXCEPT ![displays[key]].deleted = @ + 1]
            /\ displays' = MapErase(displays, key)
       ELSE UNCHANGED << displays, objects >>
    /\ UNCHANGED << sourceSelected, scene, outsideContent >>

\* Everything but the registry, as the process starts.
InitContent ==
    /\ status = "running"
    /\ exitCode = -1
    /\ initialized = TRUE
    /\ handledOBSCrashes = <<>>
    /\ insideCrashMethod = FALSE
    /\ annotations = EmptyMap
    /\ obsActive = TRUE
    /\ breadcrumbs = <<>>
    /\ warnings = <<>>
    /\ arguments = << "--no-rate-limit" >>
    /\ handed = << EmptyMap >>
    /\ stack = <<>>
    /\ calls = <<>>
    /\ faults = 0
    /\ messageMutex = 0
    /\ threads = [t \in Threads |-> IdleThread]
    /\ cleared = FALSE
    /\ walk = NoWalk
    /\ obsLog = NoOBSLog
    /\ requests = <<>>
    /\ pretty = NoBytes
    /\ rval = <<>>
    /\ lastCall = NoCall

InitRegistry ==
    /\ InitContent
    /\ displays = NoDisplays
    /\ objects = <<>>
    /\ sourceSelected = ""
    /\ scene = <<>>

NextRegistry ==
    \/ \E windowHandle \in WindowHandles, key \in Keys, rval0 \in Rvals :
          OBS_content_createDisplay(windowHandle, key, rval0)
    \/ \E windowHandle \in WindowHandles, sourceName \in SourceNames,
          key \in Keys, rval0 \in Rvals :
          OBS_content_createSourcePreviewDisplay(windowHandle, sourceName, key, rval0)
    \/ \E key \in Keys, rval0 \in Rvals : OBS_content_destroyDisplay(key, rval0)

SpecRegistry == InitRegistry /\ [][NextRegistry]_vars

(***************************************************************************)
(* The setters and getters of a display.  The argument vector of a call    *)
(* holds what the operation reads of it.                                   *)
(***************************************************************************)
\* (uint8_t)(args[n].value.ui32)
ToUint8(n) == n % 256

\* color.c[3]: args[4] scaled when it is not 0, and 255 otherwise.
Alpha(a) == IF a # 0 THEN ToUint8(a * 255) ELSE 255

\* The colour a colour setter hands to the display.
Colour(args) == << ToUint8(args[1]), ToUint8(args[2]), ToUint8(args[3]), Alpha(args[4]) >>

\* The arguments tried: two numbers, one number, a colour with alpha.
PairArgs == {<<1, 2>>}
SizeArgs == {<<3>>}
ColourArgs == {<<1, 2, 3, 0>>, <<257, 2, 3, 1>>}

\* A key that is not found stands for the display constructed first.
CallDisplayOrFirst(op, key, method, values, rval0) ==
    /\ lastCall' = Called(op, key, Found(key), rval0)
    /\ rval' = rval0
    /\ objects' = IF Found(key)
                  THEN [objects EXCEPT ![displays[key]].last = <<method>> \o values]
                  ELSE IF objects # <<>>
                  THEN [objects EXCEPT ![1].last = <<method>> \o values]
                  ELSE objects
    /\ UNCHANGED << displays, sourceSelected, scene, outsideContent >>

\* display->method(values) for the display registered under key: the call
\* is made when the key is found and not otherwise.
CallDisplay(op, key, method, values, rval0) ==
    /\ lastCall' = Called(op, key, Found(key), rval0)
    /\ rval' = rval0
    /\ objects' = IF Found(key)
                  THEN [objects EXCEPT ![displays[key]].last = <<method>> \o values]
                  ELSE objects
    /\ UNCHANGED << displays, sourceSelected, scene, outsideContent >>

OBS_content_resizeDisplay(key, args, rval0) ==
    CallDisplay("resizeDisplay", key, "SetSize", args, rval0)

OBS_content_moveDisplay(key, args, rval0) ==
    CallDisplay("moveDisplay", key, "SetPosition", args, rval0)

OBS_content_setPaddingSize(key, args, rval0) ==
    CallDisplay("setPaddingSize", key, "SetPaddingSize", args, rval0)

OBS_content_setPaddingColor(key, args, rval0) ==
    CallDisplay("setPaddingColor", key, "SetPaddingColor", Colour(args), rval0)

OBS_content_setBackgroundColor(key, args, rval0) ==
    CallDisplay("setBackgroundColor", key, "SetBackgroundColor", Colour(args), rval0)

OBS_content_setOutlineColor(key, args, rval0) ==
    CallDisplay("setOutlineColor", key, "SetOutlineColor", Colour(args), rval0)

OBS_content_setGuidelineColor(key, args, rval0) ==
    CallDisplay("setGuidelineColor", key, "SetGuidelineColor", Colour(args), rval0)

OBS_content_setResizeBoxOuterColor(key, args, rval0) ==
    CallDisplay("setResizeBoxOuterColor", key, "SetResizeBoxOuterColor", Colour(args), rval0)

OBS_content_setResizeBoxInnerColor(key, args, rval0) ==
    CallDisplay("setResizeBoxInnerColor", key, "SetResizeBoxInnerColor", Colour(args), rval0)

\* it->second->SetDrawUI((bool)args[1].value.i64);
OBS_content_setShouldDrawUI(key, value, rval0) ==
    CallDisplay("setShouldDrawUI", key, "SetDrawUI", << value # 0 >>, rval0)

\* it->second->SetDrawGuideLines((bool)args[1].value.i32);
OBS_content_setDrawGuideLines(key, value, rval0) ==
    CallDisplay("setDrawGuideLines", key, "SetDrawGuideLines", << value # 0 >>, rval0)

\* What display d answers: the two halves of GetPreviewOffset and of
\* GetPreviewSize, and GetDrawGuideLines.
GetPreviewOffset(d) == << <<"offset.first", d>>, <<"offset.second", d>> >>
GetPreviewSize(d) == << <<"size.first", d>>, <<"size.second", d>> >>
GetDrawGuideLines(d) == << <<"GetDrawGuideLines", d>> >>

\* rval.push_back(first); rval.push_back(second);
PushBackBoth(result) == << result[1], result[2] >>

\* A getter: what the display answers is appended to the return values when
\* the key is found.
GetFromDisplay(op, key, answer, rval0) ==
    /\ lastCall' = Called(op, key, Found(key), rval0)
    /\ rval' = IF Found(key) THEN rval0 \o answer ELSE rval0
    /\ UNCHANGED << displays, objects, sourceSelected, scene, outsideContent >>

OBS_content_getDisplayPreviewOffset(key, rval0) ==
    GetFromDisplay("getDisplayPreviewOffset", key,
                   IF Found(key) THEN PushBackBoth(GetPreviewOffset(displays[key])) ELSE <<>>,
                   rval0)

OBS_content_getDisplayPreviewSize(key, rval0) ==
    GetFromDisplay("getDisplayPreviewSize", key,
                   IF Found(key) THEN PushBackBoth(GetPreviewSize(displays[key])) ELSE <<>>,
                   rval0)

OBS_content_getDrawGuideLines(key, rval0) ==
    GetFromDisplay("getDrawGuideLines", key,
                   IF Found(key) THEN GetDrawGuideLines(displays[key]) ELSE <<>>,
                   rval0)

\* The registries the setters and getters are called on: any of the keys
\* registered, each with a display of either kind that no setter has
\* touched.
InitDisplay ==
    /\ InitContent
    /\ sourceSelected = ""
    /\ scene = <<>>
    /\ \E registered \in SUBSET Keys :
          \E order \in [registered -> 1..Cardinality(registered)] :
             \E kind \in [registered -> {NoSource} \cup SourceNames] :
                /\ \A k1, k2 \in registered : order[k1] = order[k2] => k1 = k2
                /\ displays = order
                /\ objects = [d \in 1..Cardinality(registered) |->
                                 LET key == CHOOSE k \in registered : order[k] = d
                                 IN  NewDisplay("hwnd", kind[key], key)]

NextDisplay ==
    \/ \E key \in Keys, args \in PairArgs, rval0 \in Rvals :
          OBS_content_resizeDisplay(key, args, rval0)
    \/ \E key \in Keys, args \in PairArgs, rval0 \in Rvals :
          OBS_content_moveDisplay(key, args, rval0)
    \/ \E key \in Keys, args \in SizeArgs, rval0 \in Rvals :
          OBS_content_setPaddingSize(key, args, rval0)
    \/ \E key \in Keys, args \in ColourArgs, rval0 \in Rvals :
          OBS_content_setPaddingColor(key, args, rval0)
    \/ \E key \in Keys, args \in ColourArgs, rval0 \in Rvals :
          OBS_content_setBackgroundColor(key, args, rval0)
    \/ \E key \in Keys, args \in ColourArgs, rval0 \in Rvals :
          OBS_content_setOutlineColor(key, args, rval0)
    \/ \E key \in Keys, args \in ColourArgs, rval0 \in Rvals :
          OBS_content_setGuidelineColor(key, args, rval0)
    \/ \E key \in Keys, args \in ColourArgs, rval0 \in Rvals :
          OBS_content_setResizeBoxOuterColor(key, args, rval0)
    \/ \E key \in Keys, args \in ColourArgs, rval0 \in Rvals :
          OBS_content_setResizeBoxInnerColor(key, args, rval0)
    \/ \E key \in Keys, value \in {0, 1}, rval0 \in Rvals :
          OBS_content_setShouldDrawUI(key, value, rval0)
    \/ \E key \in Keys, value \in {0, 1}, rval0 \in Rvals :
          OBS_content_setDrawGuideLines(key, value, rval0)
    \/ \E key \in Keys, rval0 \in Rvals : OBS_content_getDisplayPreviewOffset(key, rval0)
    \/ \E key \in Keys, rval0 \in Rvals : OBS_content_getDisplayPreviewSize(key, rval0)
    \/ \E key \in Keys, rval0 \in Rvals : OBS_content_getDrawGuideLines(key, rval0)

SpecDisplay == InitDisplay /\ [][NextDisplay]_vars

(***************************************************************************)
(* The selection.  The active scene is the sequence of its items in the    *)
(* order obs_scene_enum_items and obs_scene_find_source go through them;   *)
(* an item has the name of its source, its position and the size of its    *)
(* source, in whole pixels.                                                *)
(***************************************************************************)
Coords == {-1, 0, 1}
ItemCoords == {0, 1}
Items == [name : SourceNames, x : ItemCoords, y : ItemCoords, width : {1}, height : {1}]

\* The test of selectSource on one item.
Hit(item, x, y) ==
    /\ x >= item.x /\ x <= item.width + item.x
    /\ y >= item.y /\ y < item.height + item.y

\* The loop of selectSource from item i on: the index of the first item hit,
\* 0 when the loop ends with sourceFound false.
RECURSIVE FirstHit(_, _, _, _)
FirstHit(listSceneItems, i, x, y) ==
    IF i > Len(listSceneItems) THEN 0
    ELSE IF Hit(listSceneItems[i], x, y) THEN i
    ELSE FirstHit(listSceneItems, i + 1, x, y)

\* obs_scene_find_source: the first item whose source has the name, 0 for
\* none.
RECURSIVE obs_scene_find_source(_, _, _)
obs_scene_find_source(items, i, name) ==
    IF i > Len(items) THEN 0
    ELSE IF items[i].name = name THEN i
    ELSE obs_scene_find_source(items, i + 1, name)

\* The coordinate is used as it is given.
NoClamp(v) == v

\* if (x < 0) x = 0;
Clamp(v) == IF v < 0 THEN 0 ELSE v

\* The record of a call made with the point (x, y).
CalledAt(op, x, y, found, rval0) ==
    [Called(op, "", found, rval0) EXCEPT !.point = << x, y >>]

OBS_content_selectSource(x, y, rval0) ==
    LET hit == FirstHit(scene, 1, x, y)
    IN  /\ lastCall' = CalledAt("selectSource", x, y, hit # 0, rval0)
        /\ rval' = rval0
        /\ sourceSelected' = IF hit # 0 THEN scene[hit].name ELSE ""
        /\ UNCHANGED << displays, objects, scene, outsideContent >>

OBS_content_dragSelectedSource(x, y, rval0) ==
    /\ lastCall' = CalledAt("dragSelectedSource", x, y, sourceSelected # "", rval0)
    /\ rval' = rval0
    /\ IF sourceSelected = ""
       THEN UNCHANGED scene
       ELSE LET sourceItem == obs_scene_find_source(scene, 1, sourceSelected)
            IN  scene' = IF sourceItem = 0 THEN scene
                         ELSE [scene EXCEPT ![sourceItem].x = Clamp(x),
                                            ![sourceItem].y = Clamp(y)]
    /\ UNCHANGED << displays, objects, sourceSelected, outsideContent >>

\* Any scene of up to MaxItems items; nothing is selected.
InitScene ==
    /\ InitContent
    /\ displays = NoDisplays
    /\ objects = <<>>
    /\ sourceSelected = ""
    /\ scene \in SeqsUpTo(Items, MaxItems)

NextScene ==
    \/ \E x \in Coords, y \in Coords, rval0 \in Rvals : OBS_content_selectSource(x, y, rval0)
    \/ \E x \in Coords, y \in Coords, rval0 \in Rvals :
          OBS_content_dragSelectedSource(x, y, rval0)

SpecScene == InitScene /\ [][NextScene]_vars

(***************************************************************************)
(* Properties.                                                             *)
(***************************************************************************)
CallIds == 1..Len(calls)
FrameIds == 1..Len(stack)
Ended == status \in {"exited", "aborted"}

\* The invocation passed the guard and completed every insert statement.
Assembled(c) == c.inserted = NumInserts
\* The invocation went through assembly and the backend step.
FullyProcessed(c) == Assembled(c) /\ c.setup = "called"

\* t occurs in s: at some offset every character of t equals the character
\* of s at that place.
Occurs(t, s) ==
    \E o \in 0..(Len(s) - Len(t)) : \A c \in 1..Len(t) : s[o + c] = t[c]

ContainsSignature(format) ==
    \E j \in 1..Len(handledOBSCrashes) : Occurs(handledOBSCrashes[j], format)

\* C1: an invocation of HandleCrash that finds the latch set (an earlier
\* invocation is still assembling) captures no call stack, inserts no
\* annotation and does not set up the backend again: while it is active it is
\* at the guard, and it ends the process by abort there.
C1_Reentrancy ==
    \A i \in CallIds :
        calls[i].latched =>
            /\ ~calls[i].collected
            /\ calls[i].inserted = 0
            /\ calls[i].setup = "none"
            /\ calls[i].outcome \in {"active", "abort_guard"}
            /\ calls[i].outcome = "active" =>
                   Top.fn = "HandleCrash" /\ Top.inv = i /\ Top.pc = "guard"
            /\ calls[i].outcome = "abort_guard" => status = "aborted"

\* A second fault arrived while an earlier invocation had inserted part of
\* its annotations, and was aborted at the guard.
C1_Witness ==
    \E i, j \in CallIds :
        /\ i < j
        /\ calls[i].outcome = "active" /\ calls[i].inserted > 0
        /\ calls[j].via \in {"callback", "terminate", "filter"}
        /\ calls[j].latched /\ calls[j].outcome = "abort_guard"

C3_KnownCrashContainment ==
    \A k \in FrameIds :
        /\ (stack[k].fn = "TryHandleCrash" /\ stack[k].pc # "match") =>
               ContainsSignature(stack[k].format)
        /\ (stack[k].fn = "callback" /\ stack[k].pc # "try") =>
               ~ContainsSignature(stack[k].format)

\* A crash was taken for known although its format equals no signature: the
\* first signature does not occur in it and the second is a proper part of it.
C3_Witness ==
    \E k \in FrameIds :
        /\ stack[k].fn = "TryHandleCrash" /\ stack[k].pc = "destroy"
        /\ Len(handledOBSCrashes) = 2
        /\ ~Occurs(handledOBSCrashes[1], stack[k].format)
        /\ Len(handledOBSCrashes[2]) < Len(stack[k].format)

\* C4, as claimed: a fatal error with an unknown format that is handled with
\* the latch clear and is followed by no other fault ends the process by abort
\* at the end of HandleCrash, after the backend step, with "Crash reason"
\* holding the formatted message.
C4_UnknownFaultFullReport ==
    \A i \in CallIds :
        (/\ calls[i].via = "callback"
         /\ ~calls[i].latched
         /\ calls[i].fault = faults
         /\ Ended) =>
            /\ calls[i].outcome = "abort_end"
            /\ calls[i].setup = "called"
            /\ "Crash reason" \in DOMAIN annotations
            /\ annotations["Crash reason"] = calls[i].reason

\* C5: for a known crash whose release of the engine completes, exit(0) is
\* called after the release and only after it, TryHandleCrash does not return
\* to the callback, and the callback does not call HandleCrash.
C5_KnownFaultQuietShutdown ==
    \A k \in FrameIds :
        stack[k].fn = "TryHandleCrash" =>
            /\ stack[k].pc \in {"exit", "inexit"} => stack[k].released
            /\ stack[k].pc = "inexit" => (exitCode = 0 /\ status # "running")
            /\ stack[k].released =>
                   /\ stack[k - 1].fn = "callback" /\ stack[k - 1].pc = "try"
                   /\ \A i \in CallIds :
                          ~(calls[i].via = "callback" /\ calls[i].fault = stack[k].fault)

\* A known crash ended the process with status 0.
C5_Witness ==
    /\ status = "exited"
    /\ exitCode = 0
    /\ stack # <<>>
    /\ Top.fn = "TryHandleCrash" /\ Top.pc = "inexit" /\ Top.released

\* C6: for a known crash whose release of the engine completes, and while no
\* other fault is raised, HandleCrash is not invoked and SetupCrashpad is not
\* called again, up to the end of the process and inside HandleExit too.
C6_QuietShutdownSilent ==
    \A k \in FrameIds :
        (stack[k].fn = "TryHandleCrash" /\ stack[k].released /\ faults = stack[k].fault) =>
            /\ \A i \in CallIds : calls[i].fault # stack[k].fault
            /\ Len(arguments) = stack[k].setups0

\* A known crash ended the process, HandleExit included, without any report.
C6_Witness ==
    /\ status = "exited"
    /\ stack # <<>>
    /\ Top.fn = "TryHandleCrash" /\ Top.released
    /\ calls = <<>>

\* C7: when the release of the engine throws, HandleCrash is invoked with the
\* formatted message and with abort asked for, and unless another fault is
\* raised the process does not end with exit(0): it ends by abort.
C7_ReleaseFaultFallsBack ==
    \A k \in FrameIds :
        (stack[k].fn = "TryHandleCrash" /\ stack[k].pc = "unreach") =>
            /\ \E i \in CallIds :
                   /\ calls[i].via = "fallback"
                   /\ calls[i].fault = stack[k].fault
                   /\ calls[i].reason = stack[k].message
                   /\ calls[i].callAbort
            /\ faults = stack[k].fault => status \in {"running", "exiting", "aborted"}
            /\ ~stack[k].released

\* The fallback report went through and the process ended by abort.
C7_Witness ==
    \E k \in FrameIds, i \in CallIds :
        /\ stack[k].fn = "TryHandleCrash" /\ stack[k].pc = "unreach"
        /\ calls[i].via = "fallback" /\ calls[i].outcome = "abort_end"
        /\ status = "aborted"

\* C8, as claimed: at no time are two releases of the engine in progress, one
\* started from inside the other.
C8_RecursionGuarded ==
    Cardinality({k \in FrameIds :
                    stack[k].fn = "TryHandleCrash" /\ stack[k].pc = "destroy"}) <= 1

\* C9, as claimed: the report HandleExit asks for when the engine is active,
\* if no fault is raised, has reason "AtExit" and HandleCrash returns from it
\* without abort.
C9_ExitWithoutShutdown ==
    \A i \in CallIds :
        (calls[i].via = "exit" /\ faults = calls[i].fault /\ Ended) =>
            /\ calls[i].reason = AtExitReason
            /\ ~calls[i].callAbort
            /\ calls[i].outcome = "returned"

\* The keys of the annotation contract; the product is SLOBS.
ContractKeys ==
    { "Time elapsed", "Status", "Leaks", "Total memory", "Total used memory",
      "Total SLOBS memory", "CPU usage", "OBS errors", "OBS warnings",
      "OBS log general", "Process List", "Manual callstack", "Crash reason",
      "Computer name", "Breadcrumbs", "Warnings" }

\* C10, as claimed: once an invocation has completed its insert statements,
\* the annotation map has every key of the contract.
C10_AnnotationCompleteness ==
    \A i \in CallIds :
        Assembled(calls[i]) => ContractKeys \subseteq DOMAIN annotations

\* C11, as claimed: the map an invocation of HandleCrash gives to the backend
\* holds, under every key, the value that invocation computed; nothing of an
\* earlier report is left in it.
C11_RebuiltFromScratch ==
    \A k \in FrameIds :
        (stack[k].fn = "HandleCrash" /\ stack[k].pc = "finish") =>
            \A idx \in 1..NumInserts :
                /\ InsertKeys[idx] \in DOMAIN annotations
                /\ annotations[InsertKeys[idx]] = AnnotationValue(idx, stack[k])

\* The entries of log that thread t appended, in the order of the log.
OfThread(log, t) == SelectSeq(log, LAMBDA e : e[1] = t)

\* The first n entries thread t appends.
Numbered(t, n) == [k \in 1..n |-> <<t, k>>]

\* The appends to one log ("crumbs" or "warns") the threads of S have completed.
RECURSIVE TotalOf(_, _)
TotalOf(S, field) ==
    IF S = {} THEN 0
    ELSE LET t == CHOOSE x \in S : TRUE
         IN  threads[t][field] + TotalOf(S \ {t}, field)

\* C12: under any interleaving of the threads' appends the warning log holds
\* exactly the entries appended, each once, those of one thread in the order
\* that thread appended them; the same for the breadcrumb log as long as it
\* has not been cleared.  When every one of N threads has appended M entries
\* the log has N x M entries.
C12_AppendsKept ==
    /\ Len(warnings) = TotalOf(Threads, "warns")
    /\ \A t \in Threads : OfThread(warnings, t) = Numbered(t, threads[t].warns)
    /\ ~cleared =>
           /\ Len(breadcrumbs) = TotalOf(Threads, "crumbs")
           /\ \A t \in Threads :
                  OfThread(breadcrumbs, t) = Numbered(t, threads[t].crumbs)

\* Every thread appended MaxLog breadcrumbs, the appends of the threads
\* interleaved, and the log has all of them.
C12_Witness ==
    /\ ~cleared
    /\ \A t \in Threads : threads[t].crumbs = MaxLog
    /\ Len(breadcrumbs) = Cardinality(Threads) * MaxLog
    /\ breadcrumbs[1][1] # breadcrumbs[2][1]

Writing(t) ==
    /\ threads[t].op \in {"AddWarning", "AddBreadcrumb", "ClearBreadcrumbs"}
    /\ threads[t].pc \in {"locked", "reserved", "written"}
Reading(t) ==
    /\ threads[t].op = "HandleCrash"
    /\ threads[t].pc \in {"ComputeBreadcrumbs", "ComputeWarnings"}

\* C13, as claimed: a thread that is inside one of the five log operations
\* holds the log lock, so that no thread is reading the log for a report
\* while another thread is inside an append or a clear.
C13_LogLockHeld ==
    /\ \A t \in Threads : (Writing(t) \/ Reading(t)) => messageMutex = t
    /\ \A t, u \in Threads : ~(t # u /\ Reading(t) /\ Writing(u))

\* C14: a thread that has entered HandleCrash gets to the end of the process,
\* whoever holds the log lock at that time: the faulting thread itself, which
\* faulted inside a log operation, or another thread that never gives it back.
C14_CrashPathTerminates ==
    \A t \in Threads : (threads[t].op = "HandleCrash") ~> (status = "aborted")

\* A thread faulted while it held the log lock, read both logs for its report
\* and ended the process, the lock still held.
C14_Witness ==
    \E t \in Threads :
        /\ status = "aborted"
        /\ messageMutex = t
        /\ threads[t].pc = "aborted"
        /\ threads[t].readW # <<>>

\* C15: what ComputeBreadcrumbs returns is the breadcrumb log as it is at the
\* time of the read, element for element and of the same length, and what
\* ComputeWarnings returns is the warning log; the read changes neither log.
C15_ReportedOrder ==
    [][\A t \in Threads :
          /\ (threads[t].pc = "ComputeBreadcrumbs" /\ threads'[t].pc # "ComputeBreadcrumbs")
                 => (threads'[t].readB.items = breadcrumbs /\ UNCHANGED logState)
          /\ (threads[t].pc = "ComputeWarnings" /\ threads'[t].pc # "ComputeWarnings")
                 => (threads'[t].readW.items = warnings /\ UNCHANGED logState)]_vars

\* A report read a breadcrumb log of two entries, appended by two threads.
C15_Witness ==
    \E t \in Threads :
        /\ threads[t].readB # <<>>
        /\ Len(threads[t].readB.items) = 2
        /\ threads[t].readB.items[1][1] # threads[t].readB.items[2][1]
        /\ threads[t].readB.items = breadcrumbs

\* C16, as claimed: of the threads that invoke HandleCrash at overlapping
\* times at most one gets past the guard.
C16_OneThreadPasses ==
    Cardinality({t \in Threads : threads[t].passed}) <= 1

\* The frame a hook entered when it fired: the crash callback, or HandleCrash
\* called by the terminate handler or by the exception filter.
HookFrame(f) ==
    \/ f.fn = "callback"
    \/ f.fn = "HandleCrash" /\ calls[f.inv].via \in {"terminate", "filter"}

HookFired == \E k \in FrameIds : HookFrame(stack[k])

TopShown ==
    (IF walk.frames < MAX_CALLERS_SHOWN THEN walk.frames ELSE MAX_CALLERS_SHOWN) - 1

EntryIds == 1..Len(walk.result)

\* The run of failing frames was visited whole and the frame visited after it
\* was resolved and emitted.
GapAbsorbed ==
    /\ walk.done
    /\ walk.failFrom <= walk.failTo
    /\ walk.failTo <= TopShown
    /\ walk.failFrom - 1 >= walk.skip
    /\ walk.failFrom - 1 # walk.own

\* C18, as claimed: no entry is emitted for the frames of a failed run, and
\* the entry of the frame that follows the run carries the range whose two
\* values are the first and the last index of the run.
C18_GapCompression ==
    GapAbsorbed =>
        /\ \A e \in EntryIds :
               ~(walk.failFrom <= walk.result[e].frame /\ walk.result[e].frame <= walk.failTo)
        /\ \E e \in EntryIds :
               /\ walk.result[e].frame = walk.failFrom - 1
               /\ walk.result[e].omitted =
                      << to_string(walk.failFrom), to_string(walk.failTo) >>

\* C19, as claimed: the frames are visited and emitted innermost first, no
\* frame below skip is visited, and nothing is emitted when skip is at least
\* the number of captured frames.
C19_InnermostFirst ==
    walk.done =>
        /\ \A j \in 1..(Len(walk.visited) - 1) : walk.visited[j] < walk.visited[j + 1]
        /\ \A e \in 1..(Len(walk.result) - 1) :
               walk.result[e].frame < walk.result[e + 1].frame
        /\ \A j \in 1..Len(walk.visited) : walk.visited[j] >= walk.skip
        /\ walk.skip >= walk.frames => walk.result = <<>>

\* C19, amended: the loop visits the frames from the outermost frame shown
\* down to frame skip, one by one, so the entries are emitted outermost
\* first and the crashed method is the innermost emitted frame; no frame
\* below skip is visited, and nothing is emitted when skip is at least the
\* number of captured frames.
C19_OutermostFirst ==
    walk.done =>
        /\ \A j \in 1..Len(walk.visited) : walk.visited[j] = TopShown - j + 1
        /\ Len(walk.visited) = (IF TopShown >= walk.skip THEN TopShown - walk.skip + 1 ELSE 0)
        /\ \A e \in 1..(Len(walk.result) - 1) :
               walk.result[e].frame > walk.result[e + 1].frame
        /\ \A e \in EntryIds : walk.result[e].frame >= walk.skip
        /\ walk.skip >= walk.frames => (walk.result = <<>> /\ walk.visited = <<>>)
        /\ walk.crashedMethod =
               (IF walk.result = <<>> THEN -1 ELSE walk.result[Len(walk.result)].frame)

\* A walk that skipped frames emitted three entries or more, the last one
\* for frame skip.
C19_Witness ==
    /\ walk.done
    /\ walk.skip > 0
    /\ Len(walk.result) >= 3
    /\ walk.result[1].frame > walk.result[2].frame
    /\ walk.result[Len(walk.result)].frame = walk.skip

\* C20: at most kMaxCallers addresses are captured, at most
\* MAX_CALLERS_SHOWN entries are emitted, and the loop visits no index
\* outside 0..MAX_CALLERS_SHOWN-1, however deep the stack is.
C20_SizeCap ==
    walk.done =>
        /\ walk.frames <= kMaxCallers
        /\ Len(walk.result) <= MAX_CALLERS_SHOWN
        /\ \A j \in 1..Len(walk.visited) :
               0 <= walk.visited[j] /\ walk.visited[j] <= MAX_CALLERS_SHOWN - 1

\* A stack deeper than the capture limit: kMaxCallers addresses captured,
\* MAX_CALLERS_SHOWN entries emitted.
C20_Witness ==
    /\ walk.done
    /\ walk.depth > kMaxCallers
    /\ walk.frames = kMaxCallers
    /\ Len(walk.result) = MAX_CALLERS_SHOWN

\* The entries emitted for a frame, and the frames the loop visited.
EmittedFrames == {walk.result[e].frame : e \in EntryIds}
VisitedFrames == {walk.visited[j] : j \in 1..Len(walk.visited)}

\* The frames the loop visited and kept: both lookups succeeded and the file
\* is not util-crashmanager.cpp.
KeptFrames == {i \in VisitedFrames : FrameKind(walk, i) = "ok"}

\* C21: after RewindCallStack has returned, crashedMethod names the function
\* of the frame processed last among the frames that were resolved and
\* emitted, which is the last entry of the result; when no frame was emitted
\* it is as it was passed in.
C21_CrashedFunction ==
    walk.done =>
        /\ EmittedFrames = KeptFrames
        /\ KeptFrames # {} =>
               /\ walk.crashedMethod \in KeptFrames
               /\ \A i \in KeptFrames : walk.crashedMethod <= i
               /\ walk.crashedMethod = walk.result[Len(walk.result)].frame
        /\ KeptFrames = {} => walk.crashedMethod = NoWalk.crashedMethod

\* A walk that emitted entries and visited a frame of util-crashmanager.cpp
\* after the last of them: crashedMethod names the last emitted frame.
C21_Witness ==
    /\ walk.done
    /\ Len(walk.result) >= 2
    /\ walk.own \in VisitedFrames
    /\ walk.own < walk.result[Len(walk.result)].frame
    /\ walk.crashedMethod = walk.result[Len(walk.result)].frame

\* C22: no emitted entry has the file name util-crashmanager.cpp; a frame
\* resolved to that file gets no entry and its function is never stored as
\* the crashed method.
C22_SelfExclusion ==
    walk.done =>
        /\ \A e \in EntryIds : walk.result[e].filename # OwnFile
        /\ walk.own \notin EmittedFrames
        /\ walk.own >= 0 => walk.crashedMethod # walk.own

\* The loop visited a resolved frame of util-crashmanager.cpp that lies
\* between two emitted frames.
C22_Witness ==
    /\ walk.done
    /\ walk.own \in VisitedFrames
    /\ FrameKind(walk, walk.own) = "own"
    /\ \E e \in 1..(Len(walk.result) - 1) :
           /\ walk.result[e].frame = walk.own + 1
           /\ walk.result[e + 1].frame = walk.own - 1

\* The requests made before the last one.
EarlierRequests == 1..(Len(requests) - 1)

\* C23: a request for the general log returns the queued messages in queue
\* order and leaves the queue empty, so that a later request for it returns
\* nothing; a request for the errors or for the warnings returns the messages
\* of that log in order and leaves the logs as they were.
C23_GeneralConsumedOnce ==
    [][requests' # requests =>
          LET r == requests'[Len(requests')]
          IN  /\ r.type = "General" =>
                     /\ r.result.items = obsLog.general
                     /\ obsLog'.general = <<>>
                     /\ obsLog'.errors = obsLog.errors
                     /\ obsLog'.warnings = obsLog.warnings
                     /\ (\E k \in 1..Len(requests) : requests[k].type = "General")
                            => r.result.items = <<>>
              /\ r.type = "Errors" =>
                     (r.result.items = obsLog.errors /\ obsLog' = obsLog)
              /\ r.type = "Warnings" =>
                     (r.result.items = obsLog.warnings /\ obsLog' = obsLog)]_vars

\* The general log was requested twice: the first request returned two
\* messages, the second none, and the errors are still in their log.
C23_Witness ==
    /\ Len(requests) = 2
    /\ requests[1].type = "General"
    /\ requests[1].result.items = << "a", "b" >>
    /\ requests[2].type = "General"
    /\ requests[2].result.items = <<>>
    /\ obsLog.general = <<>>
    /\ obsLog.errors = << "b", "a" >>

\* What each query leaves when it fails, as claimed.
Sentinel(key) ==
    CASE key \in {"Total memory", "Total used memory", "Total SLOBS memory",
                  "CPU usage"} -> <<"-1">>
      [] key = "Process List" -> <<"1">>
      [] OTHER -> <<>>

\* The query the value under key comes from, "none" when it comes from none.
QueryOf(key) ==
    CASE key \in {"Total memory", "Total used memory", "Total SLOBS memory",
                  "CPU usage"} -> "usage"
      [] key = "Process List" -> "processes"
      [] key = "Manual callstack" -> "walk"
      [] key = "Computer name" -> "name"
      [] OTHER -> "none"

ItemsAsComputed(f, unspecified) ==
    \A idx \in 1..f.idx :
        LET key == InsertKeys[idx]
        IN  IF QueryOf(key) \notin f.failed
            THEN annotations[key] = AnnotationValue(idx, [f EXCEPT !.failed = {}])
            ELSE IF QueryOf(key) = "usage"
            THEN annotations[key] \in unspecified
            ELSE annotations[key] = Sentinel(key)

\* An invocation some of whose queries failed is about to insert.
QueriesFailed ==
    \E k \in FrameIds :
        /\ stack[k].fn = "HandleCrash" /\ stack[k].pc = "insert"
        /\ stack[k].failed # {}

C24_SetupFailure ==
    [][/\ \A outcome \in SetupOutcomes \ {"ok"} :
             Initialize(outcome) =>
                 (~initialized' /\ status' = "running" /\ stack' = <<>>)
       /\ ~initialized' =>
              (stack' = <<>> /\ calls' = <<>> /\ faults' = 0 /\ status' # "aborted")]_vars

\* Initialize has failed after StartHandler was called; the host registered a
\* signature, started the engine and left by exit with no hook run.
C24_Witness ==
    /\ ~initialized
    /\ Len(arguments) = 1
    /\ Len(handed) = 1
    /\ handledOBSCrashes # <<>>
    /\ obsActive
    /\ status = "exited"
    /\ calls = <<>>

\* C25, as claimed: however often SetupCrashpad has been called, the
\* argument list of the handler is the one a single call produces.
C25_SetupIdempotent ==
    arguments # <<>> => arguments = << "--no-rate-limit" >>

\* The invocations that ended at the end of HandleCrash, by abort or return.
Finished(c) == c.outcome \in {"abort_end", "returned"}

C29_UnknownLeavesNoTrace ==
    [][IF stack = <<>> THEN TRUE
       ELSE (/\ Top.fn = "TryHandleCrash" /\ Top.pc = "match"
             /\ Len(stack') = Len(stack) - 1) =>
                /\ UNCHANGED << status, exitCode, obsActive, insideCrashMethod,
                                handledOBSCrashes, breadcrumbs, warnings, obsLog,
                                annotations, arguments, handed, calls >>
                /\ stack' = SetTop(Pop(stack), [stack[Len(stack) - 1] EXCEPT !.pc = "crash"])
                /\ ~ContainsSignature(Top.format)]_vars

\* TryHandleCrash has returned false for a format two signatures long, with
\* two signatures registered: the callback is about to call HandleCrash.
C29_Witness ==
    /\ Len(stack) = 1
    /\ Top.fn = "callback" /\ Top.pc = "crash"
    /\ Len(Top.format) >= 2
    /\ Len(handledOBSCrashes) = 2
    /\ status = "running"
    /\ obsActive
    /\ ~insideCrashMethod

\* What TryHandleCrash answers for a format and a message.
Disposition(format, message) ==
    crashIsHandled(Searched(format, message), handledOBSCrashes, 1)

\* A signature occurs in the message.
MessageHasSignature(message) ==
    \E j \in 1..Len(handledOBSCrashes) : Occurs(handledOBSCrashes[j], message)

PrintsTenths(text, tenths, unit) ==
    text = to_string(tenths \div 10) \o <<".">> \o to_string(tenths % 10) \o unit

\* C28: PrettyBytes divides by 1024 once per unit from b through kb, mb, gb,
\* tb, pb to eb, so the unit is given by the number of digits the count (as a
\* double) has to the base 1024; it prints the scaled count without a point
\* when it is whole and rounded to one decimal otherwise; 0 gives "0b", 1024
\* gives "1kb", 1536 gives "1.5kb" and 1073741824 gives "1gb".
C28_ByteFormatting ==
    pretty.done =>
        LET count == ToDouble(pretty.bytes)
            unit == suffixes[Len(count)]
            whole == count[1]
            floor10 == 10 * whole + (10 * (Tail(count) \o <<0>>)[1]) \div Radix
        IN  /\ Len(count) \in 1..7
            /\ whole < Radix
            /\ AllZero(Tail(count)) => pretty.text = to_string(whole) \o unit
            /\ ~AllZero(Tail(count)) =>
                   \E tenths \in floor10..(floor10 + 2) :
                       PrintsTenths(pretty.text, tenths, unit)
            /\ pretty.bytes = <<0>> => pretty.text = <<"0", "b">>
            /\ pretty.bytes = <<1, 0>> => pretty.text = <<"1", "k", "b">>
            /\ pretty.bytes = <<1, 512>> => pretty.text = <<"1", ".", "5", "k", "b">>
            /\ pretty.bytes = <<1, 0, 0, 0>> => pretty.text = <<"1", "g", "b">>

\* PrettyBytes(1536) has returned "1.5kb".
C28_Witness ==
    /\ pretty.done
    /\ pretty.bytes = <<1, 512>>
    /\ pretty.text = <<"1", ".", "5", "k", "b">>


\* The invocations of HandleCrash on the stack that got past the guard.
PastGuard ==
    {k \in FrameIds : stack[k].fn = "HandleCrash" /\ stack[k].pc # "guard"}

\* C31: the latch is set exactly while an invocation of HandleCrash that got
\* past the guard has not returned, an invocation that ended in abort
\* included; only an invocation called with callAbort false returns; and the
\* invocation that follows a returned one finds the latch clear and is not
\* aborted at the guard.
C31_LatchRelease ==
    /\ insideCrashMethod <=> PastGuard # {}
    /\ \A i \in CallIds :
           calls[i].outcome = "returned" =>
               /\ ~calls[i].callAbort
               /\ i < Len(calls) =>
                      (~calls[i + 1].latched /\ calls[i + 1].outcome # "abort_guard")

\* The report made at exit returned, and the invocation for a fault raised
\* during the rest of exit processing got past the guard and made its
\* inserts.
C31_Witness ==
    \E i \in CallIds :
        /\ i < Len(calls)
        /\ calls[i].reason = AtExitReason /\ calls[i].outcome = "returned"
        /\ calls[i + 1].via \in {"terminate", "filter", "callback"}
        /\ Assembled(calls[i + 1])

\* The frames the loop visited for which a lookup failed.
FailedFrames == {i \in VisitedFrames : FrameKind(walk, i) = "fail"}

\* Of the frames in failed, those visited since the entry emitted before that
\* of frame i, or since the start of the loop; emitted are the frames with
\* an entry.
PendingAt(i, failed, emitted) ==
    {j \in failed : j > i /\ \A k \in emitted : ~(i < k /\ k < j)}

\* Of the frames in failed, those visited after the last emitted entry.
TrailingFailed(failed, emitted) == {j \in failed : \A k \in emitted : j < k}

\* C32: an emitted entry carries "frames omitted" exactly when a frame failed
\* resolution since the previously emitted entry or since the start, a frame
\* of util-crashmanager.cpp in between notwithstanding; a failed frame
\* visited after the last emitted entry is named by no entry.
C32_OmittedBookkeeping ==
    walk.done =>
        LET failed == FailedFrames
            emitted == EmittedFrames
            named == UNION {{walk.result[e].omitted[n] :
                                n \in 1..Len(walk.result[e].omitted)} : e \in EntryIds}
        IN  /\ \A e \in EntryIds :
                   walk.result[e].omitted # <<>>
                       <=> PendingAt(walk.result[e].frame, failed, emitted) # {}
            /\ \A j \in TrailingFailed(failed, emitted) : to_string(j) \notin named

\* A failed frame, then a frame of util-crashmanager.cpp, then a resolved
\* frame: the entry of the resolved frame carries the attribute.
C32_Witness ==
    /\ walk.done
    /\ \E e \in EntryIds :
           /\ walk.result[e].omitted # <<>>
           /\ walk.own = walk.result[e].frame + 1
           /\ walk.own + 1 \in FailedFrames

\* Thread t is inside op and holds the log lock.
Inside(t, op) ==
    threads[t].op = op /\ threads[t].pc \in {"locked", "reserved", "written"}

\* C33: the step of ClearBreadcrumbs that clears leaves the breadcrumb log
\* empty and the warning log as it was; every other step that changes the
\* breadcrumb log is a step of AddBreadcrumb that puts the argument after the
\* entries the log had, leaving the warning log as it was; every step that
\* changes the warning log is a step of AddWarning that puts the argument
\* after the entries the log had, leaving the breadcrumb log as it was.
C33_AppendOnly ==
    [][/\ \A t \in Threads :
              (At(t, "ClearBreadcrumbs", "locked") /\ threads'[t].pc = "written") =>
                  (breadcrumbs' = <<>> /\ warnings' = warnings)
       /\ breadcrumbs' # breadcrumbs =>
              /\ warnings' = warnings
              /\ \E t \in Threads :
                     \/ Inside(t, "ClearBreadcrumbs") /\ breadcrumbs' = <<>>
                     \/ /\ Inside(t, "AddBreadcrumb")
                        /\ breadcrumbs' = Append(breadcrumbs, threads[t].arg)
       /\ warnings' # warnings =>
              /\ breadcrumbs' = breadcrumbs
              /\ \E t \in Threads :
                     /\ Inside(t, "AddWarning")
                     /\ warnings' = Append(warnings, threads[t].arg)]_vars

\* ClearBreadcrumbs has just emptied a breadcrumb log of two entries while
\* the warning log holds two entries, in the order they were appended.
C33_Witness ==
    /\ \E t \in Threads : At(t, "ClearBreadcrumbs", "written")
    /\ breadcrumbs = <<>>
    /\ TotalOf(Threads, "crumbs") = 2
    /\ Len(warnings) = 2

\* The 64-bit unsigned numbers, by their digits to the base 1024.
IsUint64(bytes) == Len(bytes) < 7 \/ (Len(bytes) = 7 /\ bytes[1] < 16)

\* text ends with unit.
EndsWith(text, unit) ==
    /\ Len(unit) <= Len(text)
    /\ SubSeq(text, Len(text) - Len(unit) + 1, Len(text)) = unit

Creates == {"createDisplay", "createSourcePreviewDisplay"}
DisplayIds == 1..Len(objects)

\* The displays that were constructed and not deleted, and those the
\* registry holds.
Alive == {d \in DisplayIds : objects[d].deleted = 0}
Registered == {displays[key] : key \in DOMAIN displays}

\* C35: a call of OBS_content_createDisplay or of
\* OBS_content_createSourcePreviewDisplay with a key that is registered,
\* by either of them, constructs no display and leaves the registry as it
\* was; after every step each registered key maps to one display, which is
\* alive and was constructed for that key, no display is registered under
\* two keys and every display that is alive is registered.
C35_DuplicateCreate ==
    [][/\ (lastCall'.op \in Creates /\ lastCall'.key \in DOMAIN displays) =>
              (displays' = displays /\ objects' = objects)
       /\ \A key \in DOMAIN displays' :
              /\ displays'[key] \in Alive'
              /\ objects'[displays'[key]].key = key
       /\ Alive' = Registered']_vars

\* OBS_content_createDisplay was called with a key that
\* OBS_content_createSourcePreviewDisplay had registered: the one display
\* constructed is the source preview.
C35_Witness ==
    /\ lastCall.op = "createDisplay" /\ lastCall.found
    /\ Len(objects) = 1
    /\ DOMAIN displays = {lastCall.key}
    /\ objects[displays[lastCall.key]].source \in SourceNames

\* C36: OBS_content_destroyDisplay with a registered key deletes the
\* display of that key, which had not been deleted, and takes that key and
\* no other out of the registry; with a key that is not registered it
\* leaves the registry and every display as they were; a create with a key
\* that is not registered, a destroyed one included, registers a newly
\* constructed display under it; no display is deleted twice.
C36_Destroy ==
    [][/\ (lastCall'.op = "destroyDisplay" /\ lastCall'.key \in DOMAIN displays) =>
              LET key == lastCall'.key
                  d == displays[key]
              IN  /\ objects[d].deleted = 0
                  /\ objects' = [objects EXCEPT ![d].deleted = 1]
                  /\ DOMAIN displays' = DOMAIN displays \ {key}
                  /\ \A other \in DOMAIN displays' : displays'[other] = displays[other]
       /\ (lastCall'.op = "destroyDisplay" /\ lastCall'.key \notin DOMAIN displays) =>
              (displays' = displays /\ objects' = objects)
       /\ (lastCall'.op \in Creates /\ lastCall'.key \notin DOMAIN displays) =>
              /\ Len(objects') = Len(objects) + 1
              /\ lastCall'.key \in DOMAIN displays'
              /\ displays'[lastCall'.key] = Len(objects')
       /\ \A d \in DisplayIds' : objects'[d].deleted <= 1]_vars

\* A key was destroyed and created again while another key stayed
\* registered, and the destroyed key was then destroyed once more.
C36_Witness ==
    /\ lastCall.op = "destroyDisplay" /\ lastCall.found
    /\ \E d1, d2 \in DisplayIds :
           /\ d1 < d2
           /\ objects[d1].key = lastCall.key /\ objects[d1].deleted = 1
           /\ objects[d2].key = lastCall.key /\ objects[d2].deleted = 1
    /\ \E other \in DOMAIN displays : other # lastCall.key

Setters ==
    {"resizeDisplay", "moveDisplay", "setPaddingSize", "setPaddingColor",
     "setBackgroundColor", "setOutlineColor", "setGuidelineColor",
     "setResizeBoxOuterColor", "setResizeBoxInnerColor", "setShouldDrawUI",
     "setDrawGuideLines"}
Getters == {"getDisplayPreviewOffset", "getDisplayPreviewSize", "getDrawGuideLines"}

\* The number of values a getter returns.
ResultLen(op) == IF op = "getDrawGuideLines" THEN 1 ELSE 2

\* C37: a setter or a getter called with a key that is not registered
\* leaves every display, the registry and the return values as they were; a
\* getter called with a registered key puts after the return values it was
\* given two values for the preview offset and for the preview size and one
\* for getDrawGuideLines, all answers of the display of that key, and leaves
\* registry and displays as they were.
C37_UnknownKeyNoOp ==
    [][/\ (lastCall'.op \in Setters \cup Getters /\ lastCall'.key \notin DOMAIN displays) =>
              /\ objects' = objects
              /\ displays' = displays
              /\ rval' = lastCall'.rval0
       /\ (lastCall'.op \in Getters /\ lastCall'.key \in DOMAIN displays) =>
              LET given == Len(lastCall'.rval0)
              IN  /\ Len(rval') = given + ResultLen(lastCall'.op)
                  /\ SubSeq(rval', 1, given) = lastCall'.rval0
                  /\ \A n \in (given + 1)..Len(rval') :
                         rval'[n][2] = displays[lastCall'.key]
                  /\ objects' = objects
                  /\ displays' = displays]_vars

\* A setter was called with a key that is not registered while the other
\* key is, with return values that held an element: no setter has touched
\* the registered display.
C37_Witness ==
    /\ lastCall.op = "setDrawGuideLines" /\ ~lastCall.found
    /\ lastCall.key \notin DOMAIN displays
    /\ DOMAIN displays # {}
    /\ \A d \in DisplayIds : objects[d].last = <<>>
    /\ rval = <<"x">>

\* The item's box holds the point: the left, right and top edge belong to
\* the box, the bottom edge does not.
Contains(item, x, y) ==
    /\ item.x <= x /\ x <= item.x + item.width
    /\ item.y <= y /\ y < item.y + item.height

\* C38: OBS_content_selectSource leaves the scene as it is and sets the
\* selection to the name of the first item, in the order of the scene, whose
\* box holds the point, and to "" when no box holds it;
\* OBS_content_dragSelectedSource leaves the selection as it is, changes
\* nothing when the selection is "", and otherwise changes of the scene at
\* most the position of an item of the selected name, which it sets to the
\* point with a negative x and a negative y replaced by 0; no other step
\* changes the scene.
C38_SelectThenDrag ==
    [][/\ lastCall'.op = "selectSource" =>
              LET x == lastCall'.point[1]
                  y == lastCall'.point[2]
                  hits == {i \in 1..Len(scene) : Contains(scene[i], x, y)}
              IN  /\ scene' = scene
                  /\ hits = {} => sourceSelected' = ""
                  /\ \A i \in hits :
                         (\A j \in hits : i <= j) => sourceSelected' = scene[i].name
       /\ lastCall'.op = "dragSelectedSource" =>
              LET x == lastCall'.point[1]
                  y == lastCall'.point[2]
                  moved == {i \in 1..Len(scene) : scene'[i] # scene[i]}
              IN  /\ sourceSelected' = sourceSelected
                  /\ Len(scene') = Len(scene)
                  /\ sourceSelected = "" => moved = {}
                  /\ Cardinality(moved) <= 1
                  /\ \A i \in 1..Len(scene) :
                         \/ scene'[i] = scene[i]
                         \/ /\ scene[i].name = sourceSelected
                            /\ scene'[i] = [scene[i] EXCEPT
                                                !.x = IF x < 0 THEN 0 ELSE x,
                                                !.y = IF y < 0 THEN 0 ELSE y]
       /\ scene' # scene =>
              (lastCall'.op = "dragSelectedSource" /\ sourceSelected # "")]_vars

\* The second item of the scene was selected, its source having another
\* name than the first, and dragged to (-1, 1): it stands at (0, 1).
C38_Witness ==
    /\ lastCall.op = "dragSelectedSource" /\ lastCall.found
    /\ lastCall.point = << -1, 1 >>
    /\ Len(scene) = 2
    /\ scene[1].name # sourceSelected
    /\ scene[2].name = sourceSelected
    /\ scene[2].x = 0 /\ scene[2].y = 1
====
